---- MODULE Spec2Model ----
(***************************************************************************)
(* Admission layer of gojjo-mcp: AuthManager (API keys), RateLimiter       *)
(* (local and Redis sliding windows, token bucket) and CircuitBreaker.     *)
(* Each component has its own specification over its own variables; the    *)
(* variables of the other components stay at their initial values.         *)
(***************************************************************************)
EXTENDS Integers, Sequences, FiniteSets, TLC

VARIABLES
    \* ---- AuthManager (src/security/auth.py) ----
    authClock,      \* time.time() / datetime.utcnow(), in seconds
    redis_client,   \* TRUE iff AuthManager was constructed with a redis client
    storeUp,        \* TRUE iff calls on the redis client succeed
    store,          \* redis "api_key:{key_id}" entries: key_id -> [rec, ttl]
    key_cache,      \* AuthManager.key_cache: key_id -> [data, expires]
    pendingWrites,  \* setex tasks created by asyncio.create_task, not yet run
    issued,         \* (full_key, api_key) pairs returned by generate_api_key
    authTasks,      \* coroutines inside authenticate_api_key / revoke_api_key
    revokedOK,      \* key ids for which revoke_api_key has returned True
    lastAuth,       \* the most recently returned AuthResult with its inputs
    authSuccesses,  \* key_id -> successful authentications returned so far
    \* ---- TokenBucket / burst branch of RateLimiter._local_rate_limit ----
    tbClock,        \* time.time() as the bucket observes it
    tbRule,         \* the RateLimitRule (with burst_limit) of the key
    bucket,         \* the TokenBucket of the key
    tbCallers,      \* concurrent admission checks on the bucket
    tbBatch,        \* the round of concurrent checks under way
    tbOut,          \* the last TokenBucket call with the state it found
    tbExample,      \* the results of the consume calls made so far, while they follow ExampleCalls
    \* ---- sliding-window branch of RateLimiter._local_rate_limit ----
    lwClock,        \* time.time() as is_allowed reads it
    lwRule,         \* the RateLimitRule (no burst_limit) of the key
    local_windows,  \* RateLimiter.local_windows[key]: deque of timestamps
    lwTrace,        \* the checks made so far with their results
    \* ---- RateLimiter._redis_rate_limit on one key ----
    rzClock,        \* time.time(), shared by the processes and the store
    rzRule,         \* the RateLimitRule of the key
    rzKey,          \* the sorted set of the key: members (now, task id),
                    \*   each scored by its now
    rzExpireAt,     \* the time at which the store drops the key
    rzTasks,        \* the tasks inside is_allowed / _redis_rate_limit
    rzChecks,       \* checks begun so far
    rzAdmitted,     \* timestamp -> number of admitted checks carrying it
    rzOut,          \* the most recently returned RateLimitResult
    \* ---- CircuitBreaker (one service) ----
    cbClock,            \* time.time(), non-decreasing
    state,              \* CircuitBreaker.state
    failure_count,      \* CircuitBreaker.failure_count
    last_failure_time,  \* CircuitBreaker.last_failure_time
    cbCalls,            \* the tasks inside CircuitBreaker.call
    cbConsec,           \* failed calls since the last successful one
    cbOut,              \* the last step of a call with the state it found
    cbTrial,            \* the latest call let through from OPEN, and its outcome
    \* ---- CostBasedRateLimiter without a redis client, one identifier ----
    clClock,        \* time.time() as consume_cost reads it
    clRule,         \* the budget and window_seconds the caller passes
    cost_windows,   \* CostBasedRateLimiter.cost_windows[key]: list of (time, cost)
    clOut,          \* the last consume_cost call: inputs, ledger found, result
    \* ---- CostBasedRateLimiter with a redis client, one identifier ----
    rcClock,        \* time.time(), shared by the processes and the store
    rcRule,         \* the budget and window_seconds the callers pass
    rcKey,          \* the sorted set "cost:{identifier}": members (now, cost),
                    \*   each scored by its cost
    rcTtl,          \* the time at which the store drops the key, if one is set
    rcTasks,        \* the tasks inside consume_cost / _redis_cost_limit
    rcChecks,       \* consume_cost calls begun so far
    rcAdmitted,     \* timestamp -> sum of the costs admitted with it
    \* ---- check_multiple_limits on a RateLimiter without a redis client ----
    mlClock,        \* time.time() as is_allowed reads it
    mlLimiter,      \* RateLimiter.local_buckets and local_windows, by key
    mlOut,          \* the last check_multiple_limits call: the list it was
                    \*   given, the results of the rules it evaluated, its result
    \* ---- AuthManager.has_role ----
    hrResult,       \* the AuthResult has_role is asked about
    hrAnswers,      \* required role -> what has_role returned for it, if asked
    \* ---- DDoSProtection ----
    ddClock,        \* time.time()
    suspicious_ips, \* DDoSProtection.suspicious_ips: ip -> when it was marked
    blocked_ips,    \* DDoSProtection.blocked_ips: ip -> when it was blocked
    ddOut,          \* the last is_suspicious call: its argument, the clock it
                    \*   read, both maps as it found them, what it returned
    \* ---- SecureDjangoVueMCPServer.check_rate_limits ----
    svLimiter,      \* self.rate_limiter: its local_buckets and local_windows
    svOut,          \* the last check_rate_limits call: the AuthResult it was
    svDenials,      \* the rate-limit denials check_rate_limits has returned: 0, 1, or 2 for two or more
    svRead,         \* the last read_resource_secure call: its request and how it ended
                    \*   given, what it returned and at which line
    \* ---- RateLimiter.api_call_with_protection ----
    apLimiter,      \* the RateLimiter's local_buckets and local_windows
    apCalls,        \* api_call_with_protection calls begun so far
    apOut,          \* how the last api_call_with_protection call to end
                    \*   reached its caller
    eqClock,        \* time.time() as the side-by-side checks read it
    eqRule,         \* the rule both limiters are asked about
    eqStore,        \* the sorted set of the key in the store, with the time its TTL ends
    eqLocal,        \* the deque of the key in the limiter without a store client
    eqTasks,        \* the clock value of each task's latest check
    eqChecks,       \* the checks made so far
    eqOut,          \* the latest check with the answer of either limiter
    eqTrace,        \* the side-by-side checks made so far
    ceClock,        \* time.time() as the side-by-side consume_cost calls read it
    ceRule,         \* budget and window both ledgers are asked about
    ceStore,        \* the sorted set of the ledger in the store, with the time its TTL ends
    ceLocal,        \* the list of (time, cost) pairs of the ledger without a store client
    ceChecks,       \* the calls made so far
    ceOut,          \* the latest call with the answer of either ledger
    btClock,        \* time.time() as the checks of the burst rule read it
    btRule,         \* the rule with a burst allowance
    btLimiter,      \* local_buckets and local_windows of the limiter
    btAdmitted      \* the checks admitted, by the clock value they read

authVars == <<authClock, redis_client, storeUp, store, key_cache, pendingWrites,
              issued, authTasks, revokedOK, lastAuth, authSuccesses>>

tbVars == <<tbClock, tbRule, bucket, tbCallers, tbBatch, tbOut, tbExample>>

lwVars == <<lwClock, lwRule, local_windows, lwTrace>>

rzVars == <<rzClock, rzRule, rzKey, rzExpireAt, rzTasks, rzChecks, rzAdmitted, rzOut>>

cbVars == <<cbClock, state, failure_count, last_failure_time, cbCalls, cbConsec, cbOut,
            cbTrial>>

clVars == <<clClock, clRule, cost_windows, clOut>>

rcVars == <<rcClock, rcRule, rcKey, rcTtl, rcTasks, rcChecks, rcAdmitted>>

mlVars == <<mlClock, mlLimiter, mlOut>>

hrVars == <<hrResult, hrAnswers>>

ddVars == <<ddClock, suspicious_ips, blocked_ips, ddOut>>

svVars == <<svLimiter, svOut, svDenials, svRead>>

apVars == <<apLimiter, apCalls, apOut>>

eqVars == <<eqClock, eqRule, eqStore, eqLocal, eqTasks, eqChecks, eqOut, eqTrace>>

ceVars == <<ceClock, ceRule, ceStore, ceLocal, ceChecks, ceOut>>

btVars == <<btClock, btRule, btLimiter, btAdmitted>>

vars == <<authVars, tbVars, lwVars, rzVars, cbVars, clVars, rcVars, mlVars, hrVars, ddVars, svVars, apVars, eqVars, ceVars, btVars>>

\* what the actions of one component leave alone
nonAuthVars == <<tbVars, lwVars, rzVars, cbVars, clVars, rcVars, mlVars, hrVars, ddVars, svVars, apVars, eqVars, ceVars, btVars>>
nonBucketVars == <<authVars, lwVars, rzVars, cbVars, clVars, rcVars, mlVars, hrVars, ddVars, svVars, apVars, eqVars, ceVars, btVars>>
nonWindowVars == <<authVars, tbVars, rzVars, cbVars, clVars, rcVars, mlVars, hrVars, ddVars, svVars, apVars, eqVars, ceVars, btVars>>
nonRedisVars == <<authVars, tbVars, lwVars, cbVars, clVars, rcVars, mlVars, hrVars, ddVars, svVars, apVars, eqVars, ceVars, btVars>>
nonBreakerVars == <<authVars, tbVars, lwVars, rzVars, clVars, rcVars, mlVars, hrVars, ddVars, svVars, apVars, eqVars, ceVars, btVars>>
nonLedgerVars == <<authVars, tbVars, lwVars, rzVars, cbVars, rcVars, mlVars, hrVars, ddVars, svVars, apVars, eqVars, ceVars, btVars>>
nonRedisCostVars == <<authVars, tbVars, lwVars, rzVars, cbVars, clVars, mlVars, hrVars, ddVars, svVars, apVars, eqVars, ceVars, btVars>>
nonMultiVars == <<authVars, tbVars, lwVars, rzVars, cbVars, clVars, rcVars, hrVars, ddVars, svVars, apVars, eqVars, ceVars, btVars>>
nonRoleVars == <<authVars, tbVars, lwVars, rzVars, cbVars, clVars, rcVars, mlVars, ddVars, svVars, apVars, eqVars, ceVars, btVars>>
nonDdosVars == <<authVars, tbVars, lwVars, rzVars, cbVars, clVars, rcVars, mlVars, hrVars, svVars, apVars, eqVars, ceVars, btVars>>
\* check_rate_limits works on the server's DDoSProtection as well
nonServerVars == <<authVars, tbVars, lwVars, rzVars, cbVars, clVars, rcVars, mlVars, hrVars, apVars, eqVars, ceVars, btVars>>
\* api_call_with_protection works on the service's CircuitBreaker as well
nonApiVars == <<authVars, tbVars, lwVars, rzVars, clVars, rcVars, mlVars, hrVars, ddVars, svVars, eqVars, ceVars, btVars>>
nonEquivVars == <<authVars, tbVars, lwVars, rzVars, cbVars, clVars, rcVars, mlVars, hrVars, ddVars, svVars, apVars, ceVars, btVars>>
nonCostEquivVars == <<authVars, tbVars, lwVars, rzVars, cbVars, clVars, rcVars, mlVars, hrVars, ddVars, svVars, apVars, eqVars, btVars>>
nonBurstVars == <<authVars, tbVars, lwVars, rzVars, cbVars, clVars, rcVars, mlVars, hrVars, ddVars, svVars, apVars, eqVars, ceVars>>

(***************************************************************************)
(* Bounds of the model                                                     *)
(***************************************************************************)
MaxKeys == 1        \* keys generated in one behaviour
MaxUsage == 2       \* successful authentications counted per key
NAuthTasks == 1     \* coroutines of one AuthManager in flight at once
NCallers == 3       \* concurrent admission checks on one bucket
MaxChecks == 5       \* sliding-window checks in one behaviour
NRzTasks == 3       \* tasks checking one key through the shared store
MaxRzTime == 3      \* last reading of the clock of the shared-store checks
MaxRzChecks == 4    \* checks begun on the key in one behaviour
NCbCalls == 2       \* tasks calling through one circuit breaker
MaxFailures == 5    \* largest failure_count explored
NRcTasks == 2       \* tasks charging one identifier through the shared store
MaxRcTime == 2      \* seconds the clock of the shared cost ledger runs on
MaxRcChecks == 3    \* consume_cost calls begun on the identifier
MaxApiCalls == 5    \* api_call_with_protection calls begun in one behaviour
NEqTasks == 2       \* tasks taking turns at the side-by-side checks
MaxEqTime == 4      \* latest clock value of the side-by-side checks
MaxEqChecks == 5    \* side-by-side checks in one behaviour
MaxCeTime == 3      \* latest clock value of the side-by-side consume_cost calls, from EpochNow
MaxCeChecks == 4    \* side-by-side consume_cost calls in one behaviour
MaxBtAdmitted == 8  \* admissions counted at one clock value

(***************************************************************************)
(* Strings are sequences of symbols; "_" is the underscore character and   *)
(* every other symbol stands for a run of non-underscore characters.       *)
(***************************************************************************)
api_key_prefix == <<"gojjo", "_", "mcp">>
cache_ttl == 300
REDIS_KEY_TTL == 31536000    \* 86400 * 365
TEMPORARY_LIFETIME == 86400  \* timedelta(hours=24)
STANDARD_LIFETIME == 2592000 \* timedelta(days=30)
PREMIUM_LIFETIME == 31536000 \* timedelta(days=365)
NoExpiry == -1               \* expires_at = None

\* secrets.token_urlsafe draws from the URL-safe base64 alphabet, which
\* contains the underscore: a token without one and a token with one.
UrlsafeTokens == {<<"k">>, <<"k", "_", "k">>}

AuthTimes == {0, 200, 400, 86500}
UserRoles == {"anonymous", "basic", "premium", "developer", "admin"}
APIKeyTypes == {"temp", "standard", "premium", "permanent"}
NoIp == "None"
ClientIps == {"1.2.3.4", "5.6.7.8", NoIp}
\* the arguments generate_api_key is called with
GenArgs ==
    {[user_id |-> "u1", role |-> "basic", key_type |-> "temp", ip_whitelist |-> {}],
     [user_id |-> "u2", role |-> "admin", key_type |-> "permanent",
      ip_whitelist |-> {"1.2.3.4"}]}

\* f-string "{a}_{b}"
Joined(a, b) == a \o <<"_">> \o b

StartsWith(s, p) == Len(s) >= Len(p) /\ SubSeq(s, 1, Len(p)) = p

RECURSIVE SplitUnderscore(_)
\* str.split("_"): the segments between underscores, empty segments included
SplitUnderscore(s) ==
    IF \A i \in 1..Len(s) : s[i] # "_" THEN <<s>>
    ELSE LET i == CHOOSE j \in 1..Len(s) :
                      s[j] = "_" /\ \A m \in 1..(j - 1) : s[m] # "_"
         IN <<SubSeq(s, 1, i - 1)>> \o SplitUnderscore(SubSeq(s, i + 1, Len(s)))

\* hashlib.sha256(full_key.encode()).hexdigest(): one-way and collision free
Sha256(s) == <<"sha256", s>>

ExpiresAt(key_type, now) ==
    CASE key_type = "temp" -> now + TEMPORARY_LIFETIME
      [] key_type = "standard" -> now + STANDARD_LIFETIME
      [] key_type = "premium" -> now + PREMIUM_LIFETIME
      [] OTHER -> NoExpiry

\* a credential with its last character altered
Altered(api_key) == [api_key EXCEPT ![Len(api_key)] = "q"]

UnknownKey == Joined(api_key_prefix, Joined(<<"q">>, <<"q">>))
Malformed == {<<"k">>, Joined(api_key_prefix, <<"k">>)}

AuthResult(success, user_id, role, error) ==
    [success |-> success, user_id |-> user_id, role |-> role, error |-> error]

AuthFailure(error) == AuthResult(FALSE, "None", "anonymous", error)

IdleTask == [pc |-> "idle", cred |-> <<>>, ip |-> NoIp, kid |-> <<>>,
             rec |-> <<>>, afterRevoke |-> FALSE]

\* store: what the call got from the shared store: "none" (it did not ask),
\* "unconfigured" (there is no client), "refused" (the GET raised) or "served"
NoAuth == [done |-> FALSE, cred |-> <<>>, ip |-> NoIp, viaCache |-> FALSE,
           afterRevoke |-> FALSE, store |-> "none", res |-> AuthFailure("None")]

EmptyMap == [k \in {} |-> 0]

\* redis GET: the entry unless its TTL has run out
StoreGet(kid) ==
    IF kid \in DOMAIN store /\ authClock < store[kid].ttl
    THEN <<store[kid].rec>> ELSE <<>>

\* redis SETEX key 86400*365 value
StoreSetex(kid, rec) ==
    [k \in (DOMAIN store) \cup {kid} |->
        IF k = kid THEN [rec |-> rec, ttl |-> authClock + REDIS_KEY_TTL]
        ELSE store[k]]

\* fetched: when the record the entry descends from was read from the store
CachePut(kid, rec, fetched) ==
    [k \in (DOMAIN key_cache) \cup {kid} |->
        IF k = kid THEN [data |-> rec, expires |-> authClock + cache_ttl,
                         fetched |-> fetched]
        ELSE key_cache[k]]

CachePop(kid) == [k \in (DOMAIN key_cache) \ {kid} |-> key_cache[k]]

InitAuth ==
    /\ authClock = 0
    /\ redis_client \in BOOLEAN
    /\ storeUp = TRUE
    /\ store = EmptyMap
    /\ key_cache = EmptyMap
    /\ pendingWrites = {}
    /\ issued = {}
    /\ authTasks = [p \in 1..NAuthTasks |-> IdleTask]
    /\ revokedOK = {}
    /\ lastAuth = NoAuth
    /\ authSuccesses = EmptyMap

(***************************************************************************)
(* AuthManager.generate_api_key                                            *)
(***************************************************************************)
NewAPIKey(key_id, full_key, user_id, role, key_type, ip_whitelist) ==
    [key_id |-> key_id, key_hash |-> Sha256(full_key), user_id |-> user_id,
     role |-> role, key_type |-> key_type,
     expires_at |-> ExpiresAt(key_type, authClock), is_active |-> TRUE,
     ip_whitelist |-> ip_whitelist, usage_count |-> 0]

\* key_id and raw_key are the two token_urlsafe draws.  A draw that repeats an
\* earlier key_id is left out (128 random bits).  The setex is awaited before
\* the key is returned, so a refused store call returns no key.
GenerateApiKey(user_id, role, key_type, ip_whitelist, key_id, raw_key) ==
    LET full_key == Joined(api_key_prefix, Joined(key_id, raw_key))
        api_key == NewAPIKey(key_id, full_key, user_id, role, key_type, ip_whitelist)
    IN /\ Cardinality(issued) < MaxKeys
       /\ \A k \in issued : k.rec.key_id # key_id
       /\ redis_client => storeUp
       /\ issued' = issued \cup {[key |-> full_key, rec |-> api_key]}
       /\ store' = IF redis_client THEN StoreSetex(key_id, api_key) ELSE store
       /\ UNCHANGED <<nonAuthVars, authClock, redis_client, storeUp, key_cache, pendingWrites,
                      authTasks, revokedOK, lastAuth, authSuccesses>>

(***************************************************************************)
(* AuthManager.authenticate_api_key                                        *)
(***************************************************************************)
HasKeyFormat(api_key) ==
    /\ StartsWith(api_key, api_key_prefix \o <<"_">>)
    /\ Len(SplitUnderscore(api_key)) = 4

\* parts[2] of the Python list
KeyIdOf(api_key) == SplitUnderscore(api_key)[3]

CacheHit(kid) == kid \in DOMAIN key_cache /\ key_cache[kid].expires > authClock

\* a comparison of the key id alone, in place of the hash
HashMatches_KeyIdOnly(api_key, rec) == KeyIdOf(api_key) = rec.key_id

\* line 191-192
HashMatches(api_key, rec) == Sha256(api_key) = rec.key_hash

IsExpired(rec) == rec.expires_at # NoExpiry /\ authClock > rec.expires_at

IpRejected(rec, client_ip) ==
    /\ rec.ip_whitelist # {} /\ client_ip # NoIp
    /\ client_ip \notin rec.ip_whitelist

\* the checks after the record has been obtained: "" when all of them pass
VerifyError(api_key, rec, client_ip) ==
    IF ~HashMatches(api_key, rec) THEN "Invalid API key"
    ELSE IF ~rec.is_active THEN "API key is disabled"
    ELSE IF IsExpired(rec) THEN "API key has expired"
    ELSE IF IpRejected(rec, client_ip) THEN "IP address not authorized"
    ELSE ""

Used(rec) == [rec EXCEPT !.usage_count = rec.usage_count + 1]

\* one more successful authentication of key kid has been returned
Counted(kid) ==
    [k \in (DOMAIN authSuccesses) \cup {kid} |->
        (IF k \in DOMAIN authSuccesses THEN authSuccesses[k] ELSE 0)
        + (IF k = kid THEN 1 ELSE 0)]

AuthReturn(p, res) ==
    /\ lastAuth' = [done |-> TRUE, cred |-> authTasks[p].cred, ip |-> authTasks[p].ip,
                    viaCache |-> FALSE, afterRevoke |-> authTasks[p].afterRevoke,
                    store |-> IF authTasks[p].pc = "auth_get" THEN "refused" ELSE "served",
                    res |-> res]
    /\ authTasks' = [authTasks EXCEPT ![p] = IdleTask]
    /\ authSuccesses' = IF res.success THEN Counted(authTasks[p].kid) ELSE authSuccesses

\* lines 190-246 for task p holding record rec
AuthVerify(p, rec) ==
    LET t == authTasks[p]
        err == VerifyError(t.cred, rec, t.ip)
    IN IF err # ""
       THEN /\ AuthReturn(p, AuthFailure(err))
            /\ UNCHANGED <<key_cache, pendingWrites>>
       ELSE /\ rec.usage_count < MaxUsage
            /\ key_cache' = CachePut(t.kid, Used(rec), authClock)
            /\ pendingWrites' = IF redis_client
                                THEN pendingWrites \cup {[kid |-> t.kid, rec |-> Used(rec)]}
                                ELSE pendingWrites
            /\ AuthReturn(p, AuthResult(TRUE, rec.user_id, rec.role, "None"))

\* lines 153-188: parse, then the cache, else the awaited redis GET
AuthBegin(p, api_key, client_ip) ==
    /\ authTasks[p].pc = "idle"
    /\ IF ~HasKeyFormat(api_key)
       THEN /\ lastAuth' = [NoAuth EXCEPT !.done = TRUE, !.cred = api_key,
                               !.ip = client_ip,
                               !.res = AuthFailure("Invalid API key format")]
            /\ UNCHANGED <<authTasks, key_cache, pendingWrites>>
       ELSE LET kid == KeyIdOf(api_key)
                t == [IdleTask EXCEPT !.cred = api_key, !.ip = client_ip, !.kid = kid,
                         !.afterRevoke = (kid \in revokedOK /\
                                          \E k \in issued : k.key = api_key)]
            IN IF CacheHit(kid)
               THEN \* no await on this path: it runs to the return
                    /\ authTasks[p] = IdleTask
                    /\ LET rec == key_cache[kid].data
                           err == VerifyError(api_key, rec, client_ip)
                           done == [NoAuth EXCEPT !.done = TRUE, !.cred = api_key,
                                       !.ip = client_ip, !.viaCache = TRUE,
                                       !.afterRevoke = t.afterRevoke]
                       IN IF err # ""
                          THEN /\ lastAuth' = [done EXCEPT !.res = AuthFailure(err)]
                               /\ UNCHANGED <<key_cache, pendingWrites>>
                          ELSE /\ rec.usage_count < MaxUsage
                               /\ key_cache' = CachePut(kid, Used(rec), key_cache[kid].fetched)
                               /\ pendingWrites' =
                                    IF redis_client
                                    THEN pendingWrites \cup {[kid |-> kid, rec |-> Used(rec)]}
                                    ELSE pendingWrites
                               /\ lastAuth' = [done EXCEPT !.res =
                                                  AuthResult(TRUE, rec.user_id, rec.role, "None")]
                    /\ UNCHANGED authTasks
               ELSE IF redis_client
               THEN /\ authTasks' = [authTasks EXCEPT ![p] = [t EXCEPT !.pc = "auth_get"]]
                    /\ UNCHANGED <<lastAuth, key_cache, pendingWrites>>
               ELSE /\ lastAuth' = [NoAuth EXCEPT !.done = TRUE, !.cred = api_key,
                                       !.ip = client_ip,
                                       !.afterRevoke = t.afterRevoke,
                                       !.store = "unconfigured",
                                       !.res = AuthFailure("Authentication service unavailable")]
                    /\ UNCHANGED <<authTasks, key_cache, pendingWrites>>
    /\ authSuccesses' =
          IF /\ HasKeyFormat(api_key) /\ CacheHit(KeyIdOf(api_key))
             /\ VerifyError(api_key, key_cache[KeyIdOf(api_key)].data, client_ip) = ""
          THEN Counted(KeyIdOf(api_key)) ELSE authSuccesses
    /\ UNCHANGED <<nonAuthVars, authClock, redis_client, storeUp, store, issued, revokedOK>>

\* an except clause that lets the caller in
ExceptClause_FailsOpen(e) == AuthResult(TRUE, "None", "anonymous", "None")

\* lines 248-252: except Exception as e
ExceptClause(e) == AuthFailure("Authentication error")

\* line 177: redis serves the GET (or refuses it: the except clause answers)
AuthGet(p) ==
    /\ authTasks[p].pc = "auth_get"
    /\ IF storeUp
       THEN /\ authTasks' = [authTasks EXCEPT ![p].pc = "auth_resume",
                                              ![p].rec = StoreGet(authTasks[p].kid)]
            /\ UNCHANGED <<lastAuth, authSuccesses>>
       ELSE AuthReturn(p, ExceptClause("ConnectionError"))
    /\ UNCHANGED <<nonAuthVars, authClock, redis_client, storeUp, store, key_cache, pendingWrites,
                   issued, revokedOK>>

\* lines 178-246: the coroutine resumes with the reply and runs to its return
AuthResume(p) ==
    /\ authTasks[p].pc = "auth_resume"
    /\ IF authTasks[p].rec = <<>>
       THEN /\ AuthReturn(p, AuthFailure("API key not found"))
            /\ UNCHANGED <<key_cache, pendingWrites>>
       ELSE AuthVerify(p, authTasks[p].rec[1])
    /\ UNCHANGED <<nonAuthVars, authClock, redis_client, storeUp, store, issued, revokedOK>>

\* the task created at line 232 runs: its SETEX reaches redis, or is refused
\* and the exception dies with the task
PendingWriteRuns(w) ==
    /\ w \in pendingWrites
    /\ pendingWrites' = pendingWrites \ {w}
    /\ store' = IF storeUp THEN StoreSetex(w.kid, w.rec) ELSE store
    /\ UNCHANGED <<nonAuthVars, authClock, redis_client, storeUp, key_cache, issued, authTasks,
                   revokedOK, lastAuth, authSuccesses>>

(***************************************************************************)
(* AuthManager.revoke_api_key                                              *)
(***************************************************************************)
\* lines 321-324 up to the awaited GET; without a client it returns False
RevokeBegin(p, key_id) ==
    /\ authTasks[p].pc = "idle"
    /\ authTasks' = IF redis_client
                    THEN [authTasks EXCEPT ![p] = [IdleTask EXCEPT !.pc = "revoke_get",
                                                                   !.kid = key_id]]
                    ELSE authTasks
    /\ UNCHANGED <<nonAuthVars, authClock, redis_client, storeUp, store, key_cache, pendingWrites,
                   issued, revokedOK, lastAuth, authSuccesses>>

\* lines 324-327: the GET is served; a missing key or a refused call returns False
RevokeGet(p) ==
    /\ authTasks[p].pc = "revoke_get"
    /\ LET got == IF storeUp THEN StoreGet(authTasks[p].kid) ELSE <<>>
       IN authTasks' = IF got = <<>>
                       THEN [authTasks EXCEPT ![p] = IdleTask]
                       ELSE [authTasks EXCEPT ![p].pc = "revoke_setex",
                                              ![p].rec = <<[got[1] EXCEPT !.is_active = FALSE]>>]
    /\ UNCHANGED <<nonAuthVars, authClock, redis_client, storeUp, store, key_cache, pendingWrites,
                   issued, revokedOK, lastAuth, authSuccesses>>

\* lines 329-338: the SETEX is served, the cache entry is removed, True returned
RevokeSetex(p) ==
    /\ authTasks[p].pc = "revoke_setex"
    /\ authTasks' = [authTasks EXCEPT ![p] = IdleTask]
    /\ IF storeUp
       THEN /\ store' = StoreSetex(authTasks[p].kid, authTasks[p].rec[1])
            /\ key_cache' = CachePop(authTasks[p].kid)
            /\ revokedOK' = revokedOK \cup {authTasks[p].kid}
       ELSE UNCHANGED <<store, key_cache, revokedOK>>
    /\ UNCHANGED <<nonAuthVars, authClock, redis_client, storeUp, pendingWrites, issued, lastAuth, authSuccesses>>

(***************************************************************************)
(* Environment of the AuthManager                                          *)
(***************************************************************************)
AuthTick(t) ==
    /\ t \in AuthTimes /\ t > authClock
    /\ authClock' = t
    /\ UNCHANGED <<nonAuthVars, redis_client, storeUp, store, key_cache, pendingWrites, issued,
                   authTasks, revokedOK, lastAuth, authSuccesses>>

StoreFails ==
    /\ redis_client /\ storeUp
    /\ storeUp' = FALSE
    /\ UNCHANGED <<nonAuthVars, authClock, redis_client, store, key_cache, pendingWrites, issued,
                   authTasks, revokedOK, lastAuth, authSuccesses>>

StoreRecovers ==
    /\ ~storeUp
    /\ storeUp' = TRUE
    /\ UNCHANGED <<nonAuthVars, authClock, redis_client, store, key_cache, pendingWrites, issued,
                   authTasks, revokedOK, lastAuth, authSuccesses>>

KeyIds == {k.rec.key_id : k \in issued}

\* credentials a caller may present: the issued keys, each with one character
\* altered, a well-formed key nobody was given, and malformed strings
Credentials ==
    {k.key : k \in issued} \cup {Altered(k.key) : k \in issued}
    \cup {UnknownKey} \cup Malformed

NextAuth ==
    \/ \E a \in GenArgs, i \in UrlsafeTokens, s \in UrlsafeTokens :
          GenerateApiKey(a.user_id, a.role, a.key_type, a.ip_whitelist, i, s)
    \/ \E p \in 1..NAuthTasks, c \in Credentials, ip \in ClientIps : AuthBegin(p, c, ip)
    \/ \E p \in 1..NAuthTasks : AuthGet(p)
    \/ \E p \in 1..NAuthTasks : AuthResume(p)
    \/ \E w \in pendingWrites : PendingWriteRuns(w)
    \/ \E p \in 1..NAuthTasks, k \in KeyIds : RevokeBegin(p, k)
    \/ \E p \in 1..NAuthTasks : RevokeGet(p)
    \/ \E p \in 1..NAuthTasks : RevokeSetex(p)
    \/ \E t \in AuthTimes : AuthTick(t)

\* authentication while the shared store goes down and comes back
NextAuthFault ==
    \/ \E a \in GenArgs, i \in UrlsafeTokens, s \in UrlsafeTokens :
          GenerateApiKey(a.user_id, a.role, a.key_type, a.ip_whitelist, i, s)
    \/ \E p \in 1..NAuthTasks, c \in Credentials, ip \in ClientIps : AuthBegin(p, c, ip)
    \/ \E p \in 1..NAuthTasks : AuthGet(p)
    \/ \E p \in 1..NAuthTasks : AuthResume(p)
    \/ \E w \in pendingWrites : PendingWriteRuns(w)
    \/ \E t \in AuthTimes : AuthTick(t)
    \/ StoreFails
    \/ StoreRecovers

\* keys of every class, presented over the years after they were issued
LifeGenArgs ==
    {[user_id |-> "u1", role |-> "basic", key_type |-> t, ip_whitelist |-> {}] :
        t \in APIKeyTypes}

LifeTimes == {0, 86400, 86401, 31536000}

LifeTick(t) ==
    /\ t \in LifeTimes /\ t > authClock
    /\ authClock' = t
    /\ UNCHANGED <<nonAuthVars, redis_client, storeUp, store, key_cache, pendingWrites, issued,
                   authTasks, revokedOK, lastAuth, authSuccesses>>

NextAuthLife ==
    \/ \E a \in LifeGenArgs, i \in UrlsafeTokens, s \in UrlsafeTokens :
          GenerateApiKey(a.user_id, a.role, a.key_type, a.ip_whitelist, i, s)
    \/ \E p \in 1..NAuthTasks, c \in Credentials, ip \in ClientIps : AuthBegin(p, c, ip)
    \/ \E p \in 1..NAuthTasks : AuthGet(p)
    \/ \E p \in 1..NAuthTasks : AuthResume(p)
    \/ \E w \in pendingWrites : PendingWriteRuns(w)
    \/ \E t \in LifeTimes : LifeTick(t)

(***************************************************************************)
(* Claims about the AuthManager                                            *)
(***************************************************************************)
\* the issued pair whose plaintext is the credential of the last result
IssuedAs(api_key) == {k \in issued : k.key = api_key}

\* C1: once revoke_api_key(identifier of K) has returned True, no later
\* authenticate_api_key(K) on this AuthManager succeeds.
C1_RevokedKeyNeverAuthenticates ==
    ~(lastAuth.done /\ lastAuth.afterRevoke /\ lastAuth.res.success)

\* C2: a generated credential presented while the store is configured and
\* serving, the key unexpired, never revoked and the caller's address allowed
\* is accepted, with the owner and the role it was generated for.
C2_RoundTrip ==
    \A k \in IssuedAs(lastAuth.cred) :
        ( /\ lastAuth.done /\ redis_client /\ storeUp
          /\ ~IsExpired(k.rec)
          /\ k.rec.key_id \notin revokedOK
          /\ (k.rec.ip_whitelist = {} \/ lastAuth.ip \in k.rec.ip_whitelist) )
        => ( /\ lastAuth.res.success
             /\ lastAuth.res.user_id = k.rec.user_id
             /\ lastAuth.res.role = k.rec.role )

\* C3: a successful result is only ever returned for a credential whose hash
\* equals the hash recorded for its key id, also when the record came from
\* key_cache.
C3_HashMismatchNeverSucceeds ==
    (lastAuth.done /\ lastAuth.res.success)
    => \E k \in issued : /\ k.rec.key_id = KeyIdOf(lastAuth.cred)
                         /\ Sha256(lastAuth.cred) = k.rec.key_hash

\* an altered credential was refused for its hash on the cache path
C3_Witness ==
    /\ lastAuth.done /\ lastAuth.viaCache /\ ~lastAuth.res.success
    /\ lastAuth.res.error = "Invalid API key"
    /\ \E k \in issued : lastAuth.cred = Altered(k.key) /\ lastAuth.cred # k.key

\* C4: a key generated with a non-empty ip_whitelist authenticates only from
\* a listed client_ip; any other value, a missing client_ip included, fails.
C4_AllowListEnforced ==
    \A k \in IssuedAs(lastAuth.cred) :
        (lastAuth.done /\ lastAuth.res.success /\ k.rec.ip_whitelist # {})
        => lastAuth.ip \in k.rec.ip_whitelist

\* C18: authentication fails closed.  A call that found no unexpired cache
\* entry and then no store client, or whose store call was refused, returns
\* a failed AuthResult carrying a reason; a call returns success only from
\* an unexpired cache entry or from a record the store served.
C18_FailsClosed ==
    lastAuth.done =>
        /\ (~lastAuth.viaCache /\ lastAuth.store \in {"unconfigured", "refused"}) =>
                (~lastAuth.res.success /\ lastAuth.res.error \notin {"", "None"})
        /\ lastAuth.res.success => (lastAuth.viaCache \/ lastAuth.store = "served")

\* the store refuses the GET for a key it holds, presented as issued
C18_Witness ==
    /\ lastAuth.done /\ lastAuth.store = "refused" /\ ~lastAuth.res.success
    /\ \E k \in issued : k.key = lastAuth.cred /\ k.rec.key_id \in DOMAIN store

\* C21: a key of a class with a lifetime is rejected at every time later
\* than its creation plus that lifetime and is not rejected for expiry
\* before; a permanent key, never revoked, authenticates at every later
\* time, however long it went unused.  Stated of every result returned for
\* an issued key presented as issued, on a manager with a store client.
C21_KeyLifetimes ==
    [][(lastAuth' # lastAuth /\ lastAuth'.done /\ redis_client) =>
        \A k \in issued :
            (k.key = lastAuth'.cred /\ HasKeyFormat(k.key)) =>
                /\ (k.rec.expires_at # NoExpiry /\ authClock > k.rec.expires_at)
                        => ~lastAuth'.res.success
                /\ lastAuth'.res.error = "API key has expired"
                        => (k.rec.expires_at # NoExpiry /\ authClock > k.rec.expires_at)
                /\ k.rec.key_type = "permanent" => lastAuth'.res.success]_vars

\* C22: every successful authentication of a key adds exactly one to its
\* usage counter: once no deferred store write is pending and no call is
\* in flight, the usage count of the stored record equals the number of
\* successful authentications of the key.
C22_UsageCountsEverySuccess ==
    (pendingWrites = {} /\ \A p \in 1..NAuthTasks : authTasks[p].pc = "idle") =>
        \A kid \in DOMAIN authSuccesses :
            kid \in DOMAIN store => store[kid].rec.usage_count = authSuccesses[kid]

\* C23: revocation is permanent: a stored record whose active flag is false
\* stays in the store with the flag false, whatever runs next.
C23_RevocationIsPermanent ==
    [][\A kid \in DOMAIN store :
          ~store[kid].rec.is_active =>
              (kid \in DOMAIN store' /\ ~store'[kid].rec.is_active)]_vars

\* C24: no authentication is decided on a cached record that descends from
\* a store read made more than cache_ttl seconds before the decision.
C24_CacheBoundedInAge ==
    [][(lastAuth'.viaCache /\ (lastAuth' # lastAuth \/ authSuccesses' # authSuccesses)) =>
          authClock - key_cache[KeyIdOf(lastAuth'.cred)].fetched <= cache_ttl]_vars

\* C20: a malformed credential and a well-formed one whose hash does not
\* match the stored hash fail alike: the AuthResult returned for the first
\* (success flag and error reason) is the one returned for the second, here
\* an issued key with its last character altered, checked against the
\* record of that key.
C20_FormatAndMismatchAlike ==
    (lastAuth.done /\ ~HasKeyFormat(lastAuth.cred)) =>
        \A k \in issued :
            (HasKeyFormat(Altered(k.key)) /\ ~HashMatches(Altered(k.key), k.rec)) =>
                lastAuth.res = AuthFailure(VerifyError(Altered(k.key), k.rec, lastAuth.ip))

(***************************************************************************)
(* TokenBucket.  refill_rate = limit / window_seconds is kept as the       *)
(* fraction rate_num / rate_den, and the float token count as the integer  *)
(* tokens * rate_den, which is exact for whole-second clock readings.      *)
(***************************************************************************)
Min(a, b) == IF a <= b THEN a ELSE b
Max(a, b) == IF a >= b THEN a ELSE b

BurstRules ==
    {[limit |-> 1, window_seconds |-> 1, burst_limit |-> 10, cost_per_request |-> 1],
     [limit |-> 1, window_seconds |-> 2, burst_limit |-> 3, cost_per_request |-> 1]}

TbAmounts == {1, 5, 10}
TbTimes == {0, 2, 5}

\* TokenBucket.__init__
TokenBucket(capacity, rate_num, rate_den, now) ==
    [capacity |-> capacity, rate_num |-> rate_num, rate_den |-> rate_den,
     tokens |-> capacity * rate_den, last_refill |-> now]

\* a refill that credits nothing for the time elapsed
Refilled_NoCredit(b, now) == [b EXCEPT !.last_refill = now]

\* consume, lines 62-67: the lazy refill
Refilled(b, now) ==
    [b EXCEPT !.tokens = Min(b.capacity * b.rate_den,
                             b.tokens + (now - b.last_refill) * b.rate_num),
              !.last_refill = now]

\* consume, line 70
ConsumeOk(b, now, n) == Refilled(b, now).tokens >= n * b.rate_den

\* a consume that grants the request without debiting the bucket
Consumed_NoDebit(b, now, n) == Refilled(b, now)

\* the bucket after consume(n)
Consumed(b, now, n) ==
    IF ConsumeOk(b, now, n)
    THEN [Refilled(b, now) EXCEPT !.tokens = @ - n * b.rate_den]
    ELSE Refilled(b, now)

\* get_wait_time(n) as the fraction <<numerator, denominator>> of a second
GetWaitTime(b, n) ==
    IF b.tokens >= n * b.rate_den THEN <<0, 1>>
    ELSE <<n * b.rate_den - b.tokens, b.rate_num>>

\* the bucket after get_wait_time(n): the method assigns nothing
AfterGetWaitTime(b, n) == b

NoTbOut == [op |-> "none", n |-> 0, ok |-> FALSE, wait |-> <<0, 1>>,
            at |-> 0, before |-> TokenBucket(0, 1, 1, 0), after |-> TokenBucket(0, 1, 1, 0)]

TbOut(op, n, ok, wait, at, before, after) ==
    [op |-> op, n |-> n, ok |-> ok, wait |-> wait, at |-> at, before |-> before, after |-> after]

\* the calls of the documented example, on a bucket built at time 0:
\* consume(10) and consume(1) at 0, consume(5) and consume(1) at 5
ExampleCalls == <<[n |-> 10, at |-> 0], [n |-> 1, at |-> 0],
                  [n |-> 5, at |-> 5], [n |-> 1, at |-> 5]>>

OffExample == [on |-> FALSE, oks |-> <<>>]

\* the record of the example after consume(n) at time now returned ok
ExampleAfter(ex, n, now, ok) ==
    IF /\ ex.on /\ Len(ex.oks) < Len(ExampleCalls)
       /\ ExampleCalls[Len(ex.oks) + 1] = [n |-> n, at |-> now]
    THEN [ex EXCEPT !.oks = Append(@, ok)]
    ELSE OffExample

Pending == {p \in 1..NCallers : tbCallers[p] = "pending"}

\* a round stays undisturbed while nothing but its own checks touches the
\* bucket or the clock
Disturbed == IF Pending # {} THEN [tbBatch EXCEPT !.clean = FALSE] ELSE tbBatch

InitBucket ==
    /\ tbClock = 0
    /\ tbRule \in BurstRules
    /\ bucket = TokenBucket(tbRule.burst_limit, tbRule.limit, tbRule.window_seconds, 0)
    /\ tbCallers = [p \in 1..NCallers |-> "idle"]
    /\ tbBatch = [clean |-> FALSE, oneShort |-> FALSE]
    /\ tbOut = NoTbOut
    /\ tbExample = [on |-> TRUE, oks |-> <<>>]

\* a direct call of TokenBucket.consume(n)
TbConsume(n) ==
    /\ bucket' = Consumed(bucket, tbClock, n)
    /\ tbOut' = TbOut("consume", n, ConsumeOk(bucket, tbClock, n), <<0, 1>>,
                      tbClock, bucket, bucket')
    /\ tbExample' = ExampleAfter(tbExample, n, tbClock, ConsumeOk(bucket, tbClock, n))
    /\ tbBatch' = Disturbed
    /\ UNCHANGED <<nonBucketVars, tbClock, tbRule, tbCallers>>

\* a direct call of TokenBucket.get_wait_time(n)
TbGetWaitTime(n) ==
    /\ bucket' = AfterGetWaitTime(bucket, n)
    /\ tbOut' = TbOut("get_wait_time", n, FALSE, GetWaitTime(bucket, n),
                      tbClock, bucket, bucket')
    /\ UNCHANGED <<nonBucketVars, tbClock, tbRule, tbCallers, tbBatch, tbExample>>

\* the wall clock shows another value; time.time() may step back
TbTick(t) ==
    /\ t \in TbTimes /\ t # tbClock
    /\ tbClock' = t
    /\ tbBatch' = Disturbed
    /\ UNCHANGED <<nonBucketVars, tbRule, bucket, tbCallers, tbOut, tbExample>>

\* NCallers tasks call is_allowed for the key at once
BatchStart ==
    /\ Pending = {}
    /\ tbCallers' = [p \in 1..NCallers |-> "pending"]
    /\ tbBatch' = [clean |-> TRUE,
                   oneShort |-> Refilled(bucket, tbClock).tokens
                                = (NCallers - 1) * bucket.rate_den]
    /\ UNCHANGED <<nonBucketVars, tbClock, tbRule, bucket, tbOut, tbExample>>

\* _local_rate_limit, lines 244-271, for cost 1.0: no await between the lookup
\* of the bucket and the return, so the event loop runs it as one step
LocalBurstCheck(p) ==
    /\ tbCallers[p] = "pending"
    /\ bucket' = Consumed(bucket, tbClock, 1)
    /\ tbCallers' = [tbCallers EXCEPT ![p] =
                        IF ConsumeOk(bucket, tbClock, 1) THEN "admitted" ELSE "denied"]
    /\ tbOut' = TbOut("check", 1, ConsumeOk(bucket, tbClock, 1),
                      GetWaitTime(Consumed(bucket, tbClock, 1), 1),
                      tbClock, bucket, bucket')
    /\ tbExample' = OffExample
    /\ UNCHANGED <<nonBucketVars, tbClock, tbRule, tbBatch>>

NextBucket ==
    \/ \E n \in TbAmounts : TbConsume(n)
    \/ \E n \in TbAmounts : TbGetWaitTime(n)
    \/ \E t \in TbTimes : TbTick(t)
    \/ BatchStart
    \/ \E p \in 1..NCallers : LocalBurstCheck(p)

(***************************************************************************)
(* Claims about the token bucket                                           *)
(***************************************************************************)
\* C25: consume(n) first refills the bucket to
\* min(capacity, tokens + elapsed * refill_rate) and sets last_refill to the
\* current time, then succeeds exactly when the refilled amount is at least n,
\* subtracting n.  With capacity 10 and rate 1/s: consume(10) at 0 succeeds,
\* consume(1) at 0 fails, consume(5) at 5 succeeds, consume(1) at 5 fails.
C25_ConsumeRefillsThenDebits ==
    /\ tbOut.op = "consume" =>
          LET b == tbOut.before
              full == b.capacity * b.rate_den
              credited == b.tokens + (tbOut.at - b.last_refill) * b.rate_num
              refilled == IF credited < full THEN credited ELSE full
          IN  /\ tbOut.ok = (refilled >= tbOut.n * b.rate_den)
              /\ tbOut.after.last_refill = tbOut.at
              /\ tbOut.after.tokens = IF tbOut.ok THEN refilled - tbOut.n * b.rate_den
                                                  ELSE refilled
    /\ (tbExample.on /\ tbRule.burst_limit = 10 /\ tbRule.limit = tbRule.window_seconds) =>
          \A i \in 1..Len(tbExample.oks) : tbExample.oks[i] = <<TRUE, FALSE, TRUE, FALSE>>[i]

\* the four calls of the example have been made on the 10-token bucket
C25_Witness ==
    /\ tbExample.on /\ Len(tbExample.oks) = Len(ExampleCalls)
    /\ tbRule.burst_limit = 10 /\ tbRule.limit = tbRule.window_seconds
    /\ tbOut.op = "consume"

\* C26: a consume(n) that fails leaves the bucket as it found it: tokens and
\* last_refill are the same before and after the call.
C26_FailedConsumeLeavesBucket ==
    (tbOut.op = "consume" /\ ~tbOut.ok) =>
        /\ tbOut.after.tokens = tbOut.before.tokens
        /\ tbOut.after.last_refill = tbOut.before.last_refill

\* C7: after any sequence of consume and get_wait_time calls, at whatever
\* values the clock shows, 0 <= tokens <= capacity.
C7_TokensWithinCapacity ==
    /\ 0 <= bucket.tokens
    /\ bucket.tokens <= bucket.capacity * bucket.rate_den

\* C8: NCallers concurrent checks of one token each on a bucket holding
\* exactly NCallers - 1 tokens, with no refill in between: exactly
\* NCallers - 1 are admitted and one is denied, in every order of the checks.
C8_NoOversubscription ==
    ( /\ \A p \in 1..NCallers : tbCallers[p] \in {"admitted", "denied"}
      /\ tbBatch.clean /\ tbBatch.oneShort )
    => ( /\ Cardinality({p \in 1..NCallers : tbCallers[p] = "admitted"}) = NCallers - 1
         /\ Cardinality({p \in 1..NCallers : tbCallers[p] = "denied"}) = 1 )

\* such a round has run to its end
C8_Witness ==
    /\ \A p \in 1..NCallers : tbCallers[p] \in {"admitted", "denied"}
    /\ tbBatch.clean /\ tbBatch.oneShort
    /\ \E p \in 1..NCallers : tbCallers[p] = "denied"

(***************************************************************************)
(* RateLimiter._local_rate_limit, sliding-window branch (lines 273-307)    *)
(***************************************************************************)
WindowRules ==
    {[limit |-> 3, window_seconds |-> 60, burst_limit |-> 0, cost_per_request |-> 1],
     [limit |-> 2, window_seconds |-> 2, burst_limit |-> 0, cost_per_request |-> 1]}

LwTimes == {0, 1, 2, 3, 60, 61}
LwCosts == {1, 2}
NoRetryAfter == -1      \* retry_after = None

RECURSIVE PopExpired(_, _)
\* lines 277-278: popleft while the head is no younger than the cutoff
PopExpired(window, cutoff) ==
    IF window # <<>> /\ window[1] <= cutoff
    THEN PopExpired(Tail(window), cutoff)
    ELSE window

\* a comparison that forgets the request being admitted
WindowAdmits_CountOnly(current_count, cost, limit) == current_count <= limit

\* line 282
WindowAdmits(current_count, cost, limit) == current_count + cost <= limit

\* lines 296-304
LocalRetryAfter(window, rule, now) ==
    LET oldest_time == IF window # <<>> THEN window[1] ELSE now
    IN Max(1, oldest_time + rule.window_seconds - now)

RateLimitResult(allowed, limit, remaining, reset_time, retry_after, reason) ==
    [allowed |-> allowed, limit |-> limit, remaining |-> remaining,
     reset_time |-> reset_time, retry_after |-> retry_after, reason |-> reason]

\* the deque after a check at time now
LocalWindowAfter(window, rule, cost, now) ==
    LET pruned == PopExpired(window, now - rule.window_seconds)
    IN IF WindowAdmits(Len(pruned), cost, rule.limit)
       THEN Append(pruned, now) ELSE pruned

\* the RateLimitResult of a check at time now
LocalWindowResult(window, rule, cost, now) ==
    LET pruned == PopExpired(window, now - rule.window_seconds)
    IN IF WindowAdmits(Len(pruned), cost, rule.limit)
       THEN RateLimitResult(TRUE, rule.limit, rule.limit - Len(pruned) - cost,
                            now + rule.window_seconds, NoRetryAfter, "None")
       ELSE RateLimitResult(FALSE, rule.limit, 0, now + rule.window_seconds,
                            LocalRetryAfter(pruned, rule, now),
                            "Sliding window limit exceeded")

InitWindow ==
    /\ lwClock = 0
    /\ lwRule \in WindowRules
    /\ local_windows = <<>>
    /\ lwTrace = <<>>

\* is_allowed(identifier, limit_type, rule, cost) without a redis client
LocalWindowCheck(cost) ==
    /\ Len(lwTrace) < MaxChecks
    /\ local_windows' = LocalWindowAfter(local_windows, lwRule, cost, lwClock)
    /\ lwTrace' = Append(lwTrace,
                         [now |-> lwClock, cost |-> cost,
                          res |-> LocalWindowResult(local_windows, lwRule, cost, lwClock)])
    /\ UNCHANGED <<nonWindowVars, lwClock, lwRule>>

LwTick(t) ==
    /\ t \in LwTimes /\ t > lwClock
    /\ lwClock' = t
    /\ UNCHANGED <<nonWindowVars, lwRule, local_windows, lwTrace>>

NextWindow ==
    \/ \E c \in LwCosts : LocalWindowCheck(c)
    \/ \E t \in LwTimes : LwTick(t)

(***************************************************************************)
(* Claims about the local sliding window                                   *)
(***************************************************************************)
\* admitted checks with a timestamp in the trailing interval (s - window, s]
AdmittedIn(s) ==
    {j \in 1..Len(lwTrace) :
        /\ lwTrace[j].res.allowed
        /\ s - lwRule.window_seconds < lwTrace[j].now /\ lwTrace[j].now <= s}

\* the first five checks are four at t = 0 and one at t = 61, of cost 1
FourThenLate ==
    /\ Len(lwTrace) >= 5
    /\ \A i \in 1..4 : lwTrace[i].now = 0
    /\ lwTrace[5].now = 61
    /\ \A i \in 1..5 : lwTrace[i].cost = 1

\* C6: at non-decreasing times, no trailing interval of length window holds
\* more than limit admitted checks; with limit 3 and window 60, three checks at
\* t = 0 are admitted, a fourth is denied with retry_after 60, one at t = 61 is
\* admitted.
C6_LocalWindowBound ==
    /\ \A s \in LwTimes : Cardinality(AdmittedIn(s)) <= lwRule.limit
    /\ (lwRule.limit = 3 /\ lwRule.window_seconds = 60 /\ FourThenLate)
       => ( /\ \A i \in 1..3 : lwTrace[i].res.allowed
            /\ ~lwTrace[4].res.allowed /\ lwTrace[4].res.retry_after = 60
            /\ lwTrace[5].res.allowed )

C6_Witness == lwRule.limit = 3 /\ lwRule.window_seconds = 60 /\ FourThenLate

\* the times of the admitted checks before check i that its window still holds
HeldAt(i) ==
    {lwTrace[k].now : k \in {j \in 1..(i - 1) :
        lwTrace[j].res.allowed /\ lwTrace[j].now > lwTrace[i].now - lwRule.window_seconds}}

OldestAt(i) ==
    IF HeldAt(i) = {} THEN lwTrace[i].now
    ELSE CHOOSE t \in HeldAt(i) : \A u \in HeldAt(i) : t <= u

\* check j repeats the denied check i retry_after seconds later, and no
\* check between the two was admitted
RetriedAt(i, j) ==
    /\ i < j /\ ~lwTrace[i].res.allowed
    /\ lwTrace[j].cost = lwTrace[i].cost
    /\ lwTrace[j].now = lwTrace[i].now + lwTrace[i].res.retry_after
    /\ \A k \in (i + 1)..(j - 1) : ~lwTrace[k].res.allowed

\* C27: a denied check of the local sliding window reports
\* retry_after = oldest_entry_time + window - now, at least 1, and a check for
\* the same key retry_after seconds later, with no other admission in
\* between, is admitted.
C27_RetryHintIsEnough ==
    /\ \A i \in 1..Len(lwTrace) :
          ~lwTrace[i].res.allowed =>
              LET hint == OldestAt(i) + lwRule.window_seconds - lwTrace[i].now
              IN lwTrace[i].res.retry_after = IF hint < 1 THEN 1 ELSE hint
    /\ \A i, j \in 1..Len(lwTrace) : RetriedAt(i, j) => lwTrace[j].res.allowed


(***************************************************************************)
(* RateLimiter.is_allowed + _redis_rate_limit (lines 148-232), one key     *)
(***************************************************************************)
RzRules ==
    {[limit |-> 1, window_seconds |-> 2, burst_limit |-> 0, cost_per_request |-> 1],
     [limit |-> 2, window_seconds |-> 2, burst_limit |-> 0, cost_per_request |-> 1]}

RzCost == 1             \* cost of every check (is_allowed's default)
NoNow == -1             \* the task has read no clock value yet

\* the members the store holds for the key: none once the key's TTL has run out
ZLive == IF rzClock < rzExpireAt THEN rzKey ELSE {}

\* line 183: zremrangebyscore(key, 0, now - window)
ZRemRangeByScore(members, lo, hi) == {m \in members : ~(lo <= m[1] /\ m[1] <= hi)}

\* line 189: request_id = f"{now}:{id(asyncio.current_task())}"
RequestId(now, p) == <<now, p>>

\* lines 199-201
RedisAdmits(current_count, rule, cost) ==
    current_count * rule.cost_per_request + cost <= rule.limit

\* lines 218-222: the score of the first member by rank, plus window - now
RedisRetryAfter(members, rule, now) ==
    IF members # {}
    THEN LET oldest == CHOOSE m \in members : \A o \in members : m[1] <= o[1]
         IN oldest[1] + rule.window_seconds - now
    ELSE rule.window_seconds

IdleRz == [pc |-> "idle", now |-> NoNow]

NoRzOut == [now |-> NoNow,
            res |-> RateLimitResult(TRUE, 0, 0, 0, NoRetryAfter, "")]

InitRedis ==
    /\ rzClock = 0
    /\ rzRule \in RzRules
    /\ rzKey = {}
    /\ rzExpireAt = 0
    /\ rzTasks = [p \in 1..NRzTasks |-> IdleRz]
    /\ rzChecks = 0
    /\ rzAdmitted = [t \in 0..MaxRzTime |-> 0]
    /\ rzOut = NoRzOut

\* is_allowed, lines 161-166: read the clock, then await _redis_rate_limit.
\* A task never reads the same clock value for two checks of its own.
RzBegin(p) ==
    /\ rzTasks[p].pc = "idle"
    /\ rzTasks[p].now # rzClock
    /\ rzChecks < MaxRzChecks
    /\ rzChecks' = rzChecks + 1
    /\ rzTasks' = [rzTasks EXCEPT ![p] = [pc |-> "pipeline", now |-> rzClock]]
    /\ UNCHANGED <<nonRedisVars, rzClock, rzRule, rzKey, rzExpireAt, rzAdmitted, rzOut>>

\* lines 180-212: the pipeline runs in the store as one transaction; the
\* admitted branch returns with no further await
RzPipeline(p) ==
    /\ rzTasks[p].pc = "pipeline"
    /\ LET now == rzTasks[p].now
           pruned == ZRemRangeByScore(ZLive, 0, now - rzRule.window_seconds)
           current_count == Cardinality(pruned)
           allowed == RedisAdmits(current_count, rzRule, RzCost)
       IN /\ rzKey' = pruned \cup {RequestId(now, p)}
          /\ rzExpireAt' = rzClock + rzRule.window_seconds
          /\ IF allowed
             THEN /\ rzTasks' = [rzTasks EXCEPT ![p].pc = "idle"]
                  /\ rzAdmitted' = [rzAdmitted EXCEPT ![now] = @ + 1]
                  /\ rzOut' = [now |-> now,
                               res |-> RateLimitResult(TRUE, rzRule.limit,
                                         rzRule.limit - current_count * rzRule.cost_per_request - RzCost,
                                         now + rzRule.window_seconds, NoRetryAfter, "")]
             ELSE /\ rzTasks' = [rzTasks EXCEPT ![p].pc = "zrem"]
                  /\ UNCHANGED <<rzAdmitted, rzOut>>
    /\ UNCHANGED <<nonRedisVars, rzClock, rzRule, rzChecks>>

\* line 215: await redis_client.zrem(key, request_id)
RzZrem(p) ==
    /\ rzTasks[p].pc = "zrem"
    /\ rzKey' = ZLive \ {RequestId(rzTasks[p].now, p)}
    /\ rzTasks' = [rzTasks EXCEPT ![p].pc = "zrange"]
    /\ UNCHANGED <<nonRedisVars, rzClock, rzRule, rzExpireAt, rzChecks, rzAdmitted, rzOut>>

\* lines 218-232: await redis_client.zrange(key, 0, 0, withscores=True)
RzZrange(p) ==
    /\ rzTasks[p].pc = "zrange"
    /\ LET now == rzTasks[p].now
       IN rzOut' = [now |-> now,
                    res |-> RateLimitResult(FALSE, rzRule.limit, 0,
                              now + rzRule.window_seconds,
                              Max(1, RedisRetryAfter(ZLive, rzRule, now)),
                              "Rate limit exceeded")]
    /\ rzTasks' = [rzTasks EXCEPT ![p].pc = "idle"]
    /\ UNCHANGED <<nonRedisVars, rzClock, rzRule, rzKey, rzExpireAt, rzChecks, rzAdmitted>>

RzTick ==
    /\ rzClock < MaxRzTime
    /\ rzClock' = rzClock + 1
    /\ UNCHANGED <<nonRedisVars, rzRule, rzKey, rzExpireAt, rzTasks, rzChecks, rzAdmitted, rzOut>>

NextRedis ==
    \/ \E p \in 1..NRzTasks : RzBegin(p)
    \/ \E p \in 1..NRzTasks : RzPipeline(p)
    \/ \E p \in 1..NRzTasks : RzZrem(p)
    \/ \E p \in 1..NRzTasks : RzZrange(p)
    \/ RzTick

(***************************************************************************)
(* Claims about the shared-store sliding window                            *)
(***************************************************************************)
RECURSIVE RzAdmittedBetween(_, _)
\* admitted checks with a timestamp in lo..hi
RzAdmittedBetween(lo, hi) ==
    IF lo > hi THEN 0
    ELSE (IF lo >= 0 THEN rzAdmitted[lo] ELSE 0) + RzAdmittedBetween(lo + 1, hi)

\* C5: under any interleaving of concurrent checks on one key, the admitted
\* checks whose timestamps lie in any trailing window (s - window, s] number at
\* most limit; so with one slot left at most one more check is admitted.
C5_RedisWindowBound ==
    \A s \in 0..MaxRzTime :
        RzAdmittedBetween(s - rzRule.window_seconds + 1, s) <= rzRule.limit

\* the pipeline of task p ran and found the check over the limit
RzDeniedBy(p) ==
    /\ rzTasks[p].pc = "pipeline"
    /\ rzTasks'[p].pc = "zrem"

\* C39: under any interleaving, a check of the shared-store sliding window is
\* denied only if at least limit admitted requests lie within the trailing
\* window of its pipeline; the entries that concurrent denied checks added
\* and have not yet removed never cause a denial.
C39_NoSpuriousDenial ==
    [][\A p \in 1..NRzTasks :
          RzDeniedBy(p) =>
              RzAdmittedBetween(rzTasks[p].now - rzRule.window_seconds + 1, MaxRzTime)
                  >= rzRule.limit]_vars

(***************************************************************************)
(* CircuitBreaker (lines 85-128), configured by get_circuit_breaker for a  *)
(* service without an entry of its own (line 318)                          *)
(***************************************************************************)
failure_threshold == 3
timeout == 60
NoFailureTime == -1     \* last_failure_time = None

CbTimes == {0, 1, 60, 61, 62, 121, 122}

\* the cooldown test that leaves OPEN
CooldownElapsed_Eager(now, last) == now - last > 0

\* line 106
CooldownElapsed(now, last) == now - last > timeout

\* line 109: the figure in the message of the rejection
Remaining(now, last) == timeout - (now - last)

\* a threshold test that opens one failure late
ThresholdReached_Late(count) == count > failure_threshold

\* line 125
ThresholdReached(count) == count >= failure_threshold

InFlight == {p \in 1..NCbCalls : cbCalls[p] = "infunc"}

\* the breaker as a step of a call finds it
CbPre == [state |-> state, failure_count |-> failure_count,
          last_failure_time |-> last_failure_time, now |-> cbClock,
          inflight |-> InFlight]

CbStep(kind, remaining) == [kind |-> kind, pre |-> CbPre, remaining |-> remaining]

\* no call has been let through from OPEN yet
NoTrial == [task |-> 0, outcome |-> "none", at |-> NoFailureTime,
            reopened |-> NoFailureTime,
            after |-> [state |-> "CLOSED", failure_count |-> 0,
                       last_failure_time |-> NoFailureTime]]

\* task p is let through at time now as the trial that leaves OPEN;
\* reopened keeps the time at which the trial before it failed
TrialBegun(p, now) ==
    [task |-> p, outcome |-> "pending", at |-> now,
     reopened |-> IF cbTrial.outcome = "failure" THEN cbTrial.at ELSE NoFailureTime,
     after |-> [state |-> "HALF_OPEN", failure_count |-> failure_count,
                last_failure_time |-> last_failure_time]]

\* the call of task p ends at time now with outcome, leaving the breaker as in after
TrialEnded(p, outcome, now, after) ==
    IF cbTrial.task = p /\ cbTrial.outcome = "pending"
    THEN [cbTrial EXCEPT !.outcome = outcome, !.at = now, !.after = after]
    ELSE cbTrial

InitBreaker ==
    /\ cbTrial = NoTrial
    /\ cbClock = 0
    /\ state = "CLOSED"
    /\ failure_count = 0
    /\ last_failure_time = NoFailureTime
    /\ cbCalls = [p \in 1..NCbCalls |-> "idle"]
    /\ cbConsec = 0
    /\ cbOut = [kind |-> "none",
                pre |-> [state |-> "CLOSED", failure_count |-> 0,
                         last_failure_time |-> NoFailureTime, now |-> 0,
                         inflight |-> {}],
                remaining |-> 0]

\* lines 105-112: the gate of call, up to the invocation of func.  The
\* rejection reads the clock a second time for its message (line 109).
CallEnterBody(p) ==
    /\ cbCalls[p] = "idle"
    /\ IF state = "OPEN" /\ ~CooldownElapsed(cbClock, last_failure_time)
       THEN /\ \E now2 \in CbTimes :
                 /\ now2 >= cbClock
                 /\ cbClock' = now2
                 /\ cbOut' = CbStep("rejected", Remaining(now2, last_failure_time))
            /\ UNCHANGED <<state, cbCalls, cbTrial>>
       ELSE /\ state' = IF state = "OPEN" THEN "HALF_OPEN" ELSE state
            /\ cbCalls' = [cbCalls EXCEPT ![p] = "infunc"]
            /\ cbOut' = CbStep("invoked", 0)
            /\ cbTrial' = IF state = "OPEN" THEN TrialBegun(p, cbClock) ELSE cbTrial
            /\ UNCHANGED cbClock
    /\ UNCHANGED <<failure_count, last_failure_time, cbConsec>>

CallEnter(p) == CallEnterBody(p) /\ UNCHANGED nonBreakerVars

\* lines 114-119: func returned
CallSucceedsBody(p) ==
    /\ cbCalls[p] = "infunc"
    /\ state' = IF state = "HALF_OPEN" THEN "CLOSED" ELSE state
    /\ failure_count' = 0
    /\ cbConsec' = 0
    /\ cbCalls' = [cbCalls EXCEPT ![p] = "idle"]
    /\ cbOut' = CbStep("success", 0)
    /\ cbTrial' = TrialEnded(p, "success", cbClock,
                             [state |-> state', failure_count |-> 0,
                              last_failure_time |-> last_failure_time])
    /\ UNCHANGED <<cbClock, last_failure_time>>

CallSucceeds(p) == CallSucceedsBody(p) /\ UNCHANGED nonBreakerVars

\* lines 121-128: func raised an expected_exception
CallFailsBody(p) ==
    /\ cbCalls[p] = "infunc"
    /\ failure_count < MaxFailures
    /\ failure_count' = failure_count + 1
    /\ last_failure_time' = cbClock
    /\ state' = IF ThresholdReached(failure_count + 1) THEN "OPEN" ELSE state
    /\ cbConsec' = cbConsec + 1
    /\ cbCalls' = [cbCalls EXCEPT ![p] = "idle"]
    /\ cbOut' = CbStep("failure", 0)
    /\ cbTrial' = TrialEnded(p, "failure", cbClock,
                             [state |-> state', failure_count |-> failure_count + 1,
                              last_failure_time |-> cbClock])
    /\ UNCHANGED cbClock

CallFails(p) == CallFailsBody(p) /\ UNCHANGED nonBreakerVars

\* line 121: what func raised is no Exception (the task was cancelled), so
\* neither branch runs
CallCancelledBody(p) ==
    /\ cbCalls[p] = "infunc"
    /\ cbCalls' = [cbCalls EXCEPT ![p] = "idle"]
    /\ cbOut' = CbStep("cancelled", 0)
    /\ cbTrial' = TrialEnded(p, "cancelled", cbClock,
                             [state |-> state, failure_count |-> failure_count,
                              last_failure_time |-> last_failure_time])
    /\ UNCHANGED <<cbClock, state, failure_count, last_failure_time, cbConsec>>

CallCancelled(p) == CallCancelledBody(p) /\ UNCHANGED nonBreakerVars

CbTick(t) ==
    /\ t \in CbTimes /\ t > cbClock
    /\ cbClock' = t
    /\ UNCHANGED <<nonBreakerVars, state, failure_count, last_failure_time, cbCalls, cbConsec, cbOut,
                   cbTrial>>

NextBreaker ==
    \/ \E p \in 1..NCbCalls : CallEnter(p)
    \/ \E p \in 1..NCbCalls : CallSucceeds(p)
    \/ \E p \in 1..NCbCalls : CallFails(p)
    \/ \E p \in 1..NCbCalls : CallCancelled(p)
    \/ \E t \in CbTimes : CbTick(t)

(***************************************************************************)
(* Claims about the circuit breaker                                        *)
(***************************************************************************)
\* C9: in CLOSED a failed call adds one to the failure counter, a successful
\* call sets it to zero, and the breaker opens exactly when the failures since
\* the last success number failure_threshold; with fewer it stays CLOSED.
C9_ClosedCountsConsecutiveFailures ==
    /\ (cbOut.kind = "failure" /\ cbOut.pre.state = "CLOSED")
       => ( /\ failure_count = cbOut.pre.failure_count + 1
            /\ state \in {"CLOSED", "OPEN"}
            /\ (state = "OPEN") <=> (cbConsec = failure_threshold) )
    /\ (cbOut.kind = "success" /\ cbOut.pre.state = "CLOSED")
       => (failure_count = 0 /\ state = "CLOSED")
    /\ state = "CLOSED" => cbConsec < failure_threshold

\* the failure that opened a CLOSED breaker
C9_Witness ==
    /\ cbOut.kind = "failure" /\ cbOut.pre.state = "CLOSED"
    /\ state = "OPEN" /\ cbConsec = failure_threshold

\* a call that arrives while the breaker is OPEN, at most timeout after the
\* last failure
ArrivedInCooldown ==
    /\ cbOut.kind \in {"rejected", "invoked"}
    /\ cbOut.pre.state = "OPEN"
    /\ cbOut.pre.now - cbOut.pre.last_failure_time < timeout

\* C10: a call that finds the breaker OPEN before the cooldown has elapsed is
\* rejected without func being invoked, is told a remaining time of at most
\* timeout, and leaves failure_count and last_failure_time as they were.
C10_OpenRejectsWithoutSideEffect ==
    ArrivedInCooldown
    => ( /\ cbOut.kind = "rejected"
         /\ InFlight = cbOut.pre.inflight
         /\ cbOut.remaining <= timeout
         /\ state = "OPEN"
         /\ failure_count = cbOut.pre.failure_count
         /\ last_failure_time = cbOut.pre.last_failure_time )

\* a rejection some time into the cooldown
C10_Witness ==
    /\ ArrivedInCooldown /\ cbOut.kind = "rejected"
    /\ cbOut.pre.now > cbOut.pre.last_failure_time
    /\ cbOut.remaining < timeout

\* C11: once the cooldown has elapsed in OPEN the next call is let through as
\* the trial and the breaker is HALF_OPEN; a trial that succeeds leaves the
\* breaker CLOSED with failure count 0; a trial that fails leaves it OPEN with
\* the cooldown running from that failure, so that no call is let through
\* until a full cooldown after it.  Calls may overlap in time.
C11_TrialDecides ==
    /\ (cbOut.kind = "rejected") =>
           ~CooldownElapsed(cbOut.pre.now, cbOut.pre.last_failure_time)
    /\ (cbOut.kind = "invoked" /\ cbOut.pre.state = "OPEN") => state = "HALF_OPEN"
    /\ (cbTrial.outcome = "success") =>
           (cbTrial.after.state = "CLOSED" /\ cbTrial.after.failure_count = 0)
    /\ (cbTrial.outcome = "failure") =>
           ( /\ cbTrial.after.state = "OPEN"
             /\ cbTrial.after.last_failure_time = cbTrial.at
             /\ cbOut.kind # "invoked" )
    /\ (cbTrial.outcome = "pending" /\ cbTrial.reopened # NoFailureTime) =>
           cbTrial.at - cbTrial.reopened >= timeout

\* C36: in every reachable state, also when several calls on one breaker
\* overlap in time: state = OPEN implies failure_count >= failure_threshold
\* with last_failure_time set, and state = CLOSED implies
\* failure_count < failure_threshold.
C36_StateMatchesCount ==
    /\ state = "OPEN" =>
           (failure_count >= failure_threshold /\ last_failure_time # NoFailureTime)
    /\ state = "CLOSED" => failure_count < failure_threshold

\* C29: in HALF_OPEN exactly one trial call is let through: while the trial
\* is in flight no other call invokes the protected function.
C29_OneTrialInHalfOpen ==
    [][(state = "HALF_OPEN" /\ cbTrial.outcome = "pending") =>
          \A p \in 1..NCbCalls : cbCalls[p] = "idle" => cbCalls'[p] = "idle"]_vars

(***************************************************************************)
(* CostBasedRateLimiter.consume_cost + _local_cost_limit (lines 364-380,   *)
(* 436-479), one identifier                                                *)
(***************************************************************************)
CostRules ==
    {[budget |-> 3, window_seconds |-> 2],
     [budget |-> 4, window_seconds |-> 3]}

ClCosts == {1, 2, 3}
ClTimes == {0, 1, 2, 3, 4}

RECURSIVE PopExpiredCosts(_, _)
\* lines 448-449: pop entries off the head while they are at or before cutoff
PopExpiredCosts(cost_window, cutoff) ==
    IF cost_window # <<>> /\ cost_window[1][1] <= cutoff
    THEN PopExpiredCosts(Tail(cost_window), cutoff)
    ELSE cost_window

RECURSIVE SumCosts(_)
\* line 452: sum(entry[1] for entry in cost_window)
SumCosts(cost_window) ==
    IF cost_window = <<>> THEN 0
    ELSE cost_window[1][2] + SumCosts(Tail(cost_window))

\* an admission test that forgets the cost of the request
CostAdmits_IgnoresCost(current_cost, cost, budget) == current_cost <= budget

\* line 454 (and line 401)
CostAdmits(current_cost, cost, budget) == current_cost + cost <= budget

\* the ledger after consume_cost(cost) at time now
LocalCostAfter(cost_window, rule, cost, now) ==
    LET pruned == PopExpiredCosts(cost_window, now - rule.window_seconds)
    IN IF CostAdmits(SumCosts(pruned), cost, rule.budget)
       THEN Append(pruned, <<now, cost>>) ELSE pruned

\* the RateLimitResult of consume_cost(cost) at time now
LocalCostResult(cost_window, rule, cost, now) ==
    LET pruned == PopExpiredCosts(cost_window, now - rule.window_seconds)
        current_cost == SumCosts(pruned)
    IN IF CostAdmits(current_cost, cost, rule.budget)
       THEN RateLimitResult(TRUE, rule.budget, rule.budget - current_cost - cost,
                            now + rule.window_seconds, NoRetryAfter, "")
       ELSE RateLimitResult(FALSE, rule.budget, 0, now + rule.window_seconds,
                            Max(1, (IF pruned # <<>> THEN pruned[1][1] ELSE now)
                                   + rule.window_seconds - now),
                            "Cost budget exceeded")

InitLedger ==
    /\ clClock = 0
    /\ clRule \in CostRules
    /\ cost_windows = <<>>
    /\ clOut = [now |-> 0, cost |-> 0, before |-> <<>>,
                res |-> RateLimitResult(TRUE, 0, 0, 0, NoRetryAfter, "")]

\* consume_cost without a redis client: no await on the way, one step
LocalCostCheck(cost) ==
    /\ cost_windows' = LocalCostAfter(cost_windows, clRule, cost, clClock)
    /\ clOut' = [now |-> clClock, cost |-> cost, before |-> cost_windows,
                 res |-> LocalCostResult(cost_windows, clRule, cost, clClock)]
    /\ UNCHANGED <<nonLedgerVars, clClock, clRule>>

\* the wall clock shows another value, later or earlier
ClTick(t) ==
    /\ t \in ClTimes /\ t # clClock
    /\ clClock' = t
    /\ UNCHANGED <<nonLedgerVars, clRule, cost_windows, clOut>>

NextLedger ==
    \/ \E c \in ClCosts : LocalCostCheck(c)
    \/ \E t \in ClTimes : ClTick(t)

(***************************************************************************)
(* Claims about the local cost ledger                                      *)
(***************************************************************************)
\* the entries of the ledger stamped within (now - window, now]
InCostWindow(cost_window, now) ==
    SelectSeq(cost_window,
              LAMBDA e : now - clRule.window_seconds < e[1] /\ e[1] <= now)

\* C12: right after an admitted consume_cost the costs of the ledger entries
\* within the trailing window sum to at most the budget, and a denied
\* consume_cost adds no entry to the ledger.
C12_LocalLedgerWithinBudget ==
    /\ (clOut.cost > 0 /\ clOut.res.allowed)
       => SumCosts(InCostWindow(cost_windows, clOut.now)) <= clRule.budget
    /\ (clOut.cost > 0 /\ ~clOut.res.allowed)
       => cost_windows = PopExpiredCosts(clOut.before, clOut.now - clRule.window_seconds)

\* an admitted request that fills the budget on top of earlier entries
C12_Witness ==
    /\ clOut.cost > 0 /\ clOut.res.allowed
    /\ Len(cost_windows) >= 2
    /\ SumCosts(InCostWindow(cost_windows, clOut.now)) = clRule.budget

(***************************************************************************)
(* CostBasedRateLimiter.consume_cost + _redis_cost_limit (lines 364-434),  *)
(* one identifier.  The sorted set is scored by cost while the pruning     *)
(* bound is a time, so the clock keeps the magnitude time.time() has.      *)
(***************************************************************************)
EpochNow == 1700000000      \* time.time() when the first call is made

RcCosts == {1, 2}
NoTtl == -1                 \* the key has no expiry set

\* the members the store holds for the key
RcLive == IF rcTtl # NoTtl /\ rcClock >= rcTtl THEN {} ELSE rcKey

\* line 398: zrange(key, 0, -1, withscores=True); line 402: the sum of the scores
RECURSIVE SumScores(_)
SumScores(members) ==
    IF members = {} THEN 0
    ELSE LET m == CHOOSE x \in members : TRUE
         IN m[2] + SumScores(members \ {m})

\* lines 395, 405: members are f"{now}:{cost}" with score cost, so the range
\* 0 .. now - window_seconds is matched against the cost
PrunedCosts(members, now, rule) ==
    {m \in members : ~(0 <= m[2] /\ m[2] <= now - rule.window_seconds)}

IdleRc == [pc |-> "idle", now |-> NoNow, cost |-> 0]

InitRedisCost ==
    /\ rcClock = EpochNow
    /\ rcRule \in CostRules
    /\ rcKey = {}
    /\ rcTtl = NoTtl
    /\ rcTasks = [p \in 1..NRcTasks |-> IdleRc]
    /\ rcChecks = 0
    /\ rcAdmitted = [t \in 0..MaxRcTime |-> 0]

\* consume_cost, lines 373-377: read the clock, then await _redis_cost_limit
RcBegin(p, cost) ==
    /\ rcTasks[p].pc = "idle"
    /\ rcChecks < MaxRcChecks
    /\ rcChecks' = rcChecks + 1
    /\ rcTasks' = [rcTasks EXCEPT ![p] = [pc |-> "pipeline", now |-> rcClock, cost |-> cost]]
    /\ UNCHANGED <<nonRedisCostVars, rcClock, rcRule, rcKey, rcTtl, rcAdmitted>>

\* lines 392-401 and 419-434: the pipeline prunes and reads; the decision is
\* taken from what it read; a denial returns with no further store call
RcPipeline(p) ==
    /\ rcTasks[p].pc = "pipeline"
    /\ LET pruned == PrunedCosts(RcLive, rcTasks[p].now, rcRule)
           current_cost == SumScores(pruned)
       IN /\ rcKey' = pruned
          /\ rcTtl' = IF pruned = {} THEN NoTtl ELSE rcTtl
          /\ rcTasks' = [rcTasks EXCEPT ![p] =
                            IF CostAdmits(current_cost, rcTasks[p].cost, rcRule.budget)
                            THEN [@ EXCEPT !.pc = "zadd"]
                            ELSE [@ EXCEPT !.pc = "idle"]]
    /\ UNCHANGED <<nonRedisCostVars, rcClock, rcRule, rcChecks, rcAdmitted>>

\* line 405: await redis_client.zadd(key, {f"{now}:{cost}": cost})
RcZadd(p) ==
    /\ rcTasks[p].pc = "zadd"
    /\ rcKey' = RcLive \cup {<<rcTasks[p].now, rcTasks[p].cost>>}
    /\ rcTtl' = IF RcLive = {} THEN NoTtl ELSE rcTtl
    /\ rcTasks' = [rcTasks EXCEPT ![p].pc = "expire"]
    /\ UNCHANGED <<nonRedisCostVars, rcClock, rcRule, rcChecks, rcAdmitted>>

\* lines 406-414: await redis_client.expire(key, window_seconds), then the
\* admission is returned
RcExpire(p) ==
    /\ rcTasks[p].pc = "expire"
    /\ rcKey' = RcLive
    /\ rcTtl' = IF RcLive = {} THEN NoTtl ELSE rcClock + rcRule.window_seconds
    /\ rcAdmitted' = [rcAdmitted EXCEPT ![rcTasks[p].now - EpochNow] = @ + rcTasks[p].cost]
    /\ rcTasks' = [rcTasks EXCEPT ![p].pc = "idle"]
    /\ UNCHANGED <<nonRedisCostVars, rcClock, rcRule, rcChecks>>

RcTick ==
    /\ rcClock < EpochNow + MaxRcTime
    /\ rcClock' = rcClock + 1
    /\ UNCHANGED <<nonRedisCostVars, rcRule, rcKey, rcTtl, rcTasks, rcChecks, rcAdmitted>>

NextRedisCost ==
    \/ \E p \in 1..NRcTasks, c \in RcCosts : RcBegin(p, c)
    \/ \E p \in 1..NRcTasks : RcPipeline(p)
    \/ \E p \in 1..NRcTasks : RcZadd(p)
    \/ \E p \in 1..NRcTasks : RcExpire(p)
    \/ RcTick

(***************************************************************************)
(* Claims about the shared-store cost ledger                               *)
(***************************************************************************)
RECURSIVE RcAdmittedBetween(_, _)
\* sum of the costs admitted with a timestamp in EpochNow + lo .. EpochNow + hi
RcAdmittedBetween(lo, hi) ==
    IF lo > hi THEN 0
    ELSE (IF lo >= 0 THEN rcAdmitted[lo] ELSE 0) + RcAdmittedBetween(lo + 1, hi)

\* C13: under any interleaving of concurrent consume_cost calls on one
\* identifier, the costs admitted with timestamps in any trailing window
\* (s - window, s] sum to at most the budget; two calls are never both admitted
\* when the budget left covers only one of them.
C13_RedisLedgerWithinBudget ==
    \A s \in 0..MaxRcTime :
        RcAdmittedBetween(s - rcRule.window_seconds + 1, s) <= rcRule.budget

(***************************************************************************)
(* RateLimiter.is_allowed on the local path (lines 148-168, 234-307) over  *)
(* several keys, and check_multiple_limits (lines 536-549)                 *)
(***************************************************************************)
NoLimit == 999999           \* limit and remaining of the "all passed" result

\* the limiter's dictionaries, keyed by (identifier, limit type)
NoLocalState == [local_buckets |-> EmptyMap, local_windows |-> EmptyMap]

Put(f, k, v) == [x \in DOMAIN f \cup {k} |-> IF x = k THEN v ELSE f[x]]

\* is_allowed(identifier, limit_type, rule, cost) at time now on limiter st:
\* the limiter afterwards and the RateLimitResult
IsAllowedLocal(st, key, rule, cost, now) ==
    IF rule.burst_limit # 0
    THEN LET b == IF key \in DOMAIN st.local_buckets
                  THEN st.local_buckets[key]
                  ELSE TokenBucket(rule.burst_limit, rule.limit, rule.window_seconds, now)
             after == Consumed(b, now, cost)
             wait == GetWaitTime(after, cost)
         IN [st |-> [st EXCEPT !.local_buckets = Put(@, key, after)],
             res |-> IF ConsumeOk(b, now, cost)
                     THEN RateLimitResult(TRUE, rule.limit, after.tokens \div after.rate_den,
                                          now + rule.window_seconds, NoRetryAfter, "")
                     ELSE RateLimitResult(FALSE, rule.limit, 0, now + rule.window_seconds,
                                          (wait[1] \div wait[2]) + 1,
                                          "Token bucket depleted")]
    ELSE LET window == IF key \in DOMAIN st.local_windows
                       THEN st.local_windows[key] ELSE <<>>
         IN [st |-> [st EXCEPT !.local_windows =
                         Put(@, key, LocalWindowAfter(window, rule, cost, now))],
             res |-> LocalWindowResult(window, rule, cost, now)]

\* a loop test that never leaves the loop early
Denies_Never(result) == FALSE

\* line 545: if not result.allowed
Denies(result) == ~result.allowed

RECURSIVE CheckLimitsFrom(_, _, _, _, _, _)
\* lines 543-549 from the i-th pair of limits on; trace collects the result of
\* every is_allowed call made
CheckLimitsFrom(st, identifier, limits, i, now, trace) ==
    IF i > Len(limits)
    THEN [st |-> st, trace |-> trace,
          res |-> RateLimitResult(TRUE, NoLimit, NoLimit, 0, NoRetryAfter, "")]
    ELSE LET r == IsAllowedLocal(st, <<identifier, limits[i].type>>, limits[i].rule, 1, now)
         IN IF Denies(r.res)
            THEN [st |-> r.st, trace |-> Append(trace, r.res), res |-> r.res]
            ELSE CheckLimitsFrom(r.st, identifier, limits, i + 1, now,
                                 Append(trace, r.res))

CheckMultipleLimits(st, identifier, limits, now) ==
    CheckLimitsFrom(st, identifier, limits, 1, now, <<>>)

MlWindowA == [limit |-> 1, window_seconds |-> 2, burst_limit |-> 0, cost_per_request |-> 1]
MlWindowB == [limit |-> 2, window_seconds |-> 3, burst_limit |-> 0, cost_per_request |-> 1]
MlBurst == [limit |-> 1, window_seconds |-> 2, burst_limit |-> 2, cost_per_request |-> 1]

\* the lists of (RateLimitType, RateLimitRule) pairs the callers pass
MlLimitLists ==
    {<<>>,
     <<[type |-> "rpm", rule |-> MlWindowB]>>,
     <<[type |-> "rps", rule |-> MlWindowA], [type |-> "rpm", rule |-> MlWindowB]>>,
     <<[type |-> "rpm", rule |-> MlWindowB], [type |-> "rps", rule |-> MlWindowA]>>,
     <<[type |-> "rpm", rule |-> MlWindowB], [type |-> "rph", rule |-> MlBurst],
       [type |-> "rps", rule |-> MlWindowA]>>}

MlTimes == {0, 1, 2, 3}

InitMulti ==
    /\ mlClock = 0
    /\ mlLimiter = NoLocalState
    /\ mlOut = [limits |-> <<>>, trace |-> <<>>, called |-> FALSE,
                pre |-> NoLocalState, now |-> 0,
                res |-> RateLimitResult(TRUE, NoLimit, NoLimit, 0, NoRetryAfter, "")]

\* check_multiple_limits(rate_limiter, identifier, limits): without a redis
\* client no await on the way suspends, so the call is one step
CheckMultipleLimitsCall(limits) ==
    /\ LET r == CheckMultipleLimits(mlLimiter, "user:u1", limits, mlClock)
       IN /\ mlLimiter' = r.st
          /\ mlOut' = [limits |-> limits, trace |-> r.trace, called |-> TRUE,
                       pre |-> mlLimiter, now |-> mlClock,
                       res |-> r.res]
    /\ UNCHANGED <<nonMultiVars, mlClock>>

MlTick(t) ==
    /\ t \in MlTimes /\ t > mlClock
    /\ mlClock' = t
    /\ UNCHANGED <<nonMultiVars, mlLimiter, mlOut>>

NextMulti ==
    \/ \E limits \in MlLimitLists : CheckMultipleLimitsCall(limits)
    \/ \E t \in MlTimes : MlTick(t)

AnswerOf(i) ==
    IsAllowedLocal(mlOut.pre, <<"user:u1", mlOut.limits[i].type>>,
                   mlOut.limits[i].rule, 1, mlOut.now).res

\* C28: a denial returned by check_multiple_limits is the most restrictive
\* one: its retry_after is at least the retry_after of every other rule of
\* the list that would also deny the request.
C28_MostRestrictiveDenial ==
    (mlOut.called /\ ~mlOut.res.allowed) =>
        \A i \in 1..Len(mlOut.limits) :
            ~AnswerOf(i).allowed => mlOut.res.retry_after >= AnswerOf(i).retry_after

\* the deque of the key, empty for a key never seen
WindowOf(st, key) ==
    IF key \in DOMAIN st.local_windows THEN st.local_windows[key] ELSE <<>>

\* the bucket of the key, full for a key never seen
BucketOf(st, key, rule, now) ==
    IF key \in DOMAIN st.local_buckets THEN st.local_buckets[key]
    ELSE TokenBucket(rule.burst_limit, rule.limit, rule.window_seconds, now)

\* the i-th rule of the list holds for the key what it held before the
\* call, refilled or pruned at most
QuotaUntouched(i) ==
    LET key == <<"user:u1", mlOut.limits[i].type>>
        rule == mlOut.limits[i].rule
    IN IF rule.burst_limit # 0
       THEN BucketOf(mlLimiter, key, rule, mlOut.now) \in
                {BucketOf(mlOut.pre, key, rule, mlOut.now),
                 Refilled(BucketOf(mlOut.pre, key, rule, mlOut.now), mlOut.now)}
       ELSE WindowOf(mlLimiter, key) \in
                {WindowOf(mlOut.pre, key),
                 PopExpired(WindowOf(mlOut.pre, key), mlOut.now - rule.window_seconds)}

\* C37: a denied composite check consumes no quota: when check_multiple_limits
\* returns allowed=False, the bucket or window of every rule of the list, the
\* rules evaluated before the failing one included, is as before the call,
\* apart from refill and the pruning of expired entries.
C37_DenialConsumesNothing ==
    (mlOut.called /\ ~mlOut.res.allowed) =>
        \A i \in 1..Len(mlOut.limits) : QuotaUntouched(i)

RoleLevel_Flat(role) == 0

\* lines 440-446: role_hierarchy
RoleLevel(role) ==
    CASE role = "anonymous" -> 0
      [] role = "basic" -> 1
      [] role = "premium" -> 2
      [] role = "developer" -> 3
      [] role = "admin" -> 4
      [] OTHER -> 0

\* lines 437-451
HasRole(auth_result, required_role) ==
    IF ~auth_result.success THEN FALSE
    ELSE RoleLevel(auth_result.role) >= RoleLevel(required_role)

\* the AuthResults has_role is handed: successes and failures of every role
HrResults ==
    {AuthResult(TRUE, u, r, "None") : u \in {"u1", "None"}, r \in UserRoles}
    \cup {AuthResult(FALSE, "None", r, "Invalid API key") : r \in UserRoles}

InitRole ==
    /\ hrResult \in HrResults
    /\ hrAnswers = [r \in UserRoles |-> "unasked"]

HasRoleCall(required_role) ==
    /\ hrAnswers' = [hrAnswers EXCEPT ![required_role] =
                        IF HasRole(hrResult, required_role) THEN "true" ELSE "false"]
    /\ UNCHANGED <<nonRoleVars, hrResult>>

NextRole == \E r \in UserRoles : HasRoleCall(r)

(***************************************************************************)
(* Claims about has_role                                                   *)
(***************************************************************************)
\* the total order of the roles, lowest first
RoleOrder == <<"anonymous", "basic", "premium", "developer", "admin">>

Rank(role) == CHOOSE i \in 1..Len(RoleOrder) : RoleOrder[i] = role

Asked == {r \in UserRoles : hrAnswers[r] # "unasked"}

\* C15 as stated: has_role(result, required) is true iff the level of the
\* result's role is at least the level of required in the order Anonymous <
\* Basic < Premium < Developer < Admin; so it is monotone in required.
C15_HasRoleIffLevel ==
    /\ \A r \in Asked :
          (hrAnswers[r] = "true") <=> (Rank(hrResult.role) >= Rank(r))
    /\ \A r1, r2 \in Asked :
          (hrAnswers[r1] = "true" /\ Rank(r2) <= Rank(r1)) => hrAnswers[r2] = "true"

\* C15 amended: has_role(result, required) is true iff the result is a
\* successful one and the level of its role is at least the level of required;
\* for a failed result it is false for every required role.  It is monotone in
\* required.
C15_HasRoleIffSuccessAndLevel ==
    /\ \A r \in Asked :
          (hrAnswers[r] = "true") <=>
             (hrResult.success /\ Rank(hrResult.role) >= Rank(r))
    /\ \A r1, r2 \in Asked :
          (hrAnswers[r1] = "true" /\ Rank(r2) <= Rank(r1)) => hrAnswers[r2] = "true"

\* Premium satisfies Basic and does not satisfy Developer
C15_Witness ==
    /\ hrResult.success /\ hrResult.role = "premium"
    /\ hrAnswers["basic"] = "true" /\ hrAnswers["developer"] = "false"

(***************************************************************************)
(* DDoSProtection: the suspicion and block maps of one process.            *)
(***************************************************************************)
SuspicionLifetime == 3600   \* a mark older than this is pruned
BlockLifetime == 86400      \* a block older than this is pruned
GraceWindow == 300          \* a mark younger than this turns into a block

DdIps == {"1.2.3.4", "5.6.7.8"}
DdTimes == {0, 299, 300, 3600, 86399, 86400}

\* a clean-up that drops nothing
Unexpired_KeepsAll(m, now, lifetime) == m

\* {ip: timestamp for ip, timestamp in m.items() if now - timestamp < lifetime}
Unexpired(m, now, lifetime) ==
    [ip \in {i \in DOMAIN m : now - m[i] < lifetime} |-> m[ip]]

\* a mark is taken for recent whatever its age (mutation of the grace test)
FlaggedRecently_Always(marked_at, now) == TRUE

\* now - self.suspicious_ips[client_ip] < 300
FlaggedRecently(marked_at, now) == now - marked_at < GraceWindow

\* is_suspicious(client_ip) at time now on the maps (suspicious, blocked):
\* the maps it leaves and the value it returns
IsSuspicious(suspicious, blocked, client_ip, now) ==
    LET s == Unexpired(suspicious, now, SuspicionLifetime)
        b == Unexpired(blocked, now, BlockLifetime)
    IN  IF client_ip \in DOMAIN b
        THEN [suspicious_ips |-> s, blocked_ips |-> b, ret |-> TRUE]
        ELSE IF client_ip \in DOMAIN s /\ FlaggedRecently(s[client_ip], now)
        THEN [suspicious_ips |-> s, blocked_ips |-> Put(b, client_ip, now),
              ret |-> TRUE]
        ELSE [suspicious_ips |-> s, blocked_ips |-> b, ret |-> FALSE]

NoDdOut == [op |-> "none", ip |-> NoIp, now |-> 0,
            suspicious_ips |-> EmptyMap, blocked_ips |-> EmptyMap, ret |-> FALSE]

InitDdos ==
    /\ ddClock = 0
    /\ suspicious_ips = EmptyMap
    /\ blocked_ips = EmptyMap
    /\ ddOut = NoDdOut

IsSuspiciousCall(client_ip) ==
    LET r == IsSuspicious(suspicious_ips, blocked_ips, client_ip, ddClock)
    IN  /\ suspicious_ips' = r.suspicious_ips
        /\ blocked_ips' = r.blocked_ips
        /\ ddOut' = [op |-> "is_suspicious", ip |-> client_ip, now |-> ddClock,
                     suspicious_ips |-> suspicious_ips,
                     blocked_ips |-> blocked_ips, ret |-> r.ret]
        /\ UNCHANGED <<nonDdosVars, ddClock>>

MarkSuspicious(client_ip) ==
    /\ suspicious_ips' = Put(suspicious_ips, client_ip, ddClock)
    /\ ddOut' = NoDdOut
    /\ UNCHANGED <<nonDdosVars, ddClock, blocked_ips>>

\* the duration argument is not used
BlockIp(client_ip) ==
    /\ blocked_ips' = Put(blocked_ips, client_ip, ddClock)
    /\ ddOut' = NoDdOut
    /\ UNCHANGED <<nonDdosVars, ddClock, suspicious_ips>>

\* time.time() is the wall clock: it may be set to any reading
DdTick(t) ==
    /\ t # ddClock
    /\ ddClock' = t
    /\ UNCHANGED <<nonDdosVars, suspicious_ips, blocked_ips, ddOut>>

NextDdos ==
    \/ \E ip \in DdIps : IsSuspiciousCall(ip)
    \/ \E ip \in DdIps : MarkSuspicious(ip)
    \/ \E ip \in DdIps : BlockIp(ip)
    \/ \E t \in DdTimes : DdTick(t)

(***************************************************************************)
(* Claims about DDoSProtection                                             *)
(***************************************************************************)
\* the record of ip in map m is live at time now
LiveAt(m, ip, now, lifetime) == ip \in DOMAIN m /\ now - m[ip] < lifetime

\* map m holds for ip what map pre held, or nothing if that had expired
KeptOrPruned(pre, m, ip, now, lifetime) ==
    IF LiveAt(pre, ip, now, lifetime)
    THEN ip \in DOMAIN m /\ m[ip] = pre[ip]
    ELSE ip \notin DOMAIN m

\* C16: is_suspicious(ip) returns true whenever ip has an unexpired block
\* record; with no such record but a mark less than the grace window old it
\* writes a block record starting now and returns true; in every other case
\* it returns false and leaves ip without a block record.  The records of
\* the other addresses are as they were, but for the expired ones, which
\* are gone.
C16_SuspicionDecides ==
    ddOut.op = "is_suspicious" =>
        LET ip == ddOut.ip
            now == ddOut.now
            blocked == LiveAt(ddOut.blocked_ips, ip, now, BlockLifetime)
            marked == /\ ip \in DOMAIN ddOut.suspicious_ips
                      /\ now - ddOut.suspicious_ips[ip] < GraceWindow
        IN  /\ blocked =>
                /\ ddOut.ret
                /\ blocked_ips[ip] = ddOut.blocked_ips[ip]
            /\ (~blocked /\ marked) =>
                /\ ddOut.ret
                /\ ip \in DOMAIN blocked_ips /\ blocked_ips[ip] = now
            /\ (~blocked /\ ~marked) =>
                /\ ~ddOut.ret
                /\ ip \notin DOMAIN blocked_ips
            /\ \A other \in DdIps \ {ip} :
                /\ KeptOrPruned(ddOut.blocked_ips, blocked_ips, other, now,
                                BlockLifetime)
                /\ KeptOrPruned(ddOut.suspicious_ips, suspicious_ips, other,
                                now, SuspicionLifetime)

\* C34: the records expire: is_suspicious ignores and drops a mark once it
\* is SuspicionLifetime old and a block once it is BlockLifetime old,
\* counted from the block's start; a call for a blocked address leaves the
\* start of its block where it was; so an address whose block has run out
\* and that has no mark younger than the block is reported not suspicious.
C34_RecordsExpire ==
    ddOut.op = "is_suspicious" =>
        LET now == ddOut.now
            pre_s == ddOut.suspicious_ips
            pre_b == ddOut.blocked_ips
        IN  /\ \A ip \in DOMAIN pre_s :
                  now - pre_s[ip] >= SuspicionLifetime => ip \notin DOMAIN suspicious_ips
            /\ \A ip \in DOMAIN pre_b :
                  IF now - pre_b[ip] >= BlockLifetime
                  THEN ip \in DOMAIN blocked_ips =>
                           /\ ip = ddOut.ip /\ blocked_ips[ip] = now
                           /\ ip \in DOMAIN pre_s /\ pre_s[ip] > pre_b[ip]
                  ELSE ip \in DOMAIN blocked_ips /\ blocked_ips[ip] = pre_b[ip]
            /\ ( /\ ddOut.ip \in DOMAIN pre_b
                 /\ now - pre_b[ddOut.ip] >= BlockLifetime
                 /\ (ddOut.ip \in DOMAIN pre_s => pre_s[ddOut.ip] <= pre_b[ddOut.ip]) )
               => (~ddOut.ret /\ ddOut.ip \notin DOMAIN blocked_ips)

\* a call finds the block of its address a full BlockLifetime old, and an
\* older mark with it
C34_Witness ==
    /\ ddOut.op = "is_suspicious"
    /\ ddOut.ip \in DOMAIN ddOut.blocked_ips
    /\ ddOut.now - ddOut.blocked_ips[ddOut.ip] >= BlockLifetime
    /\ ddOut.ip \in DOMAIN ddOut.suspicious_ips
    /\ ~ddOut.ret

\* a mark at 0 is promoted at 299 while the other address, blocked at 0,
\* keeps its record
C16_Witness ==
    /\ ddOut.op = "is_suspicious" /\ ddOut.ret /\ ddOut.now = 299
    /\ ddOut.ip \notin DOMAIN ddOut.blocked_ips
    /\ ddOut.ip \in DOMAIN ddOut.suspicious_ips
    /\ blocked_ips[ddOut.ip] = 299
    /\ \E other \in DdIps \ {ddOut.ip} :
        other \in DOMAIN blocked_ips /\ blocked_ips[other] = 0

(***************************************************************************)
(* SecureDjangoVueMCPServer.check_rate_limits, on a server whose           *)
(* rate_limiter has no redis client.  The server's ddos_protection is the  *)
(* DDoSProtection above; none of the calls made suspends, so one call is   *)
(* one step.                                                               *)
(***************************************************************************)
SvClientIp == "1.2.3.4"     \* os.getenv('CLIENT_IP', '127.0.0.1')
SvTimes == {0, 299, 300}

\* rate_limit_key(user_id=...) / rate_limit_key(client_ip=...)
RateLimitKey(user_id, client_ip) ==
    IF user_id # "None" THEN <<"user", user_id>> ELSE <<"ip", client_ip>>

RateLimitRule(limit, window_seconds, burst_limit) ==
    [limit |-> limit, window_seconds |-> window_seconds,
     burst_limit |-> burst_limit, cost_per_request |-> 1]

PerMinuteAndHour(m, h) == << [type |-> "rpm", rule |-> m], [type |-> "rph", rule |-> h] >>

\* lines 218-238: the limits of each role below Admin
RoleLimits(role) ==
    CASE role = "anonymous" ->
            PerMinuteAndHour(RateLimitRule(10, 60, 15), RateLimitRule(100, 3600, 120))
      [] role = "basic" ->
            PerMinuteAndHour(RateLimitRule(50, 60, 75), RateLimitRule(1000, 3600, 1200))
      [] role = "premium" ->
            PerMinuteAndHour(RateLimitRule(100, 60, 150), RateLimitRule(5000, 3600, 6000))
      [] role = "developer" ->
            PerMinuteAndHour(RateLimitRule(200, 60, 300), RateLimitRule(10000, 3600, 12000))
      [] OTHER -> <<>>

\* the requests the server checks: the anonymous one authenticate_request
\* lets in without a key, and one authenticated with an Admin key
SvResults == {AuthResult(TRUE, "None", "anonymous", ""),
              AuthResult(TRUE, "u1", "admin", "")}

\* what authenticate_api_key answers for a key it does not accept (auth.py
\* lines 155-249), among them the answer for a store that cannot be reached
SvFailures == {AuthFailure("Invalid API key"),
               AuthFailure("Authentication service unavailable")}

\* lines 182-194: with MCP_API_KEY set the answer of authenticate_api_key,
\* whatever it is; without it the anonymous AuthResult
AuthenticateRequest(presented) ==
    IF presented
    THEN {a \in SvResults : a.user_id # "None"} \cup SvFailures
    ELSE {a \in SvResults : a.user_id = "None"}

\* resources of the three kinds read_resource_secure routes (lines 367-430)
SvUris == {"django://django", "integration://django-vue-auth", "custom://aida-permissions"}

NoSvRead == [called |-> FALSE, presented |-> FALSE, auth_result |-> AuthFailure(""),
             uri |-> "", outcome |-> "none"]

NoSvOut == [auth_result |-> AuthFailure(""), ret |-> FALSE, line |-> 0, blocks |-> FALSE]

InitServer ==
    /\ svLimiter = NoLocalState
    /\ svOut = NoSvOut
    /\ svDenials = 0
    /\ svRead = NoSvRead

CheckRateLimits(auth_result) ==
    LET identifier == RateLimitKey(auth_result.user_id, SvClientIp)
        d == IsSuspicious(suspicious_ips, blocked_ips, SvClientIp, ddClock)
        r == CheckMultipleLimits(svLimiter, identifier,
                                 RoleLimits(auth_result.role), ddClock)
    IN  /\ ddOut' = NoDdOut
        /\ IF d.ret
           THEN /\ suspicious_ips' = d.suspicious_ips
                /\ blocked_ips' = d.blocked_ips
                /\ svOut' = [auth_result |-> auth_result, ret |-> FALSE, line |-> 215,
                             blocks |-> SvClientIp \notin
                                 DOMAIN Unexpired(blocked_ips, ddClock, BlockLifetime)]
                /\ UNCHANGED <<svLimiter, svDenials>>
           ELSE IF auth_result.role = "admin"
           THEN /\ suspicious_ips' = d.suspicious_ips
                /\ blocked_ips' = d.blocked_ips
                /\ svOut' = [auth_result |-> auth_result, ret |-> TRUE, line |-> 241,
                             blocks |-> FALSE]
                /\ UNCHANGED <<svLimiter, svDenials>>
           ELSE IF ~r.res.allowed
           THEN /\ svLimiter' = r.st
                /\ suspicious_ips' = Put(d.suspicious_ips, SvClientIp, ddClock)
                /\ blocked_ips' = d.blocked_ips
                /\ svOut' = [auth_result |-> auth_result, ret |-> FALSE, line |-> 252,
                             blocks |-> FALSE]
                /\ svDenials' = IF svDenials < 2 THEN svDenials + 1 ELSE 2
           ELSE /\ svLimiter' = r.st
                /\ suspicious_ips' = d.suspicious_ips
                /\ blocked_ips' = d.blocked_ips
                /\ svOut' = [auth_result |-> auth_result, ret |-> TRUE, line |-> 254,
                             blocks |-> FALSE]
                /\ UNCHANGED svDenials
        /\ UNCHANGED <<nonServerVars, ddClock>>

\* lines 367-430, for a well-formed uri of a known resource: where the
\* request ends once check_rate_limits has returned True.  "pypi" is the call
\* of api_call_with_protection for the package details (lines 375-380), the
\* operation of the component below; "integration" and "custom" are the calls
\* of the content generators; "notice" is the text that asks for an upgrade.
RouteResource(auth_result, uri) ==
    CASE uri = "django://django" -> "pypi"
      [] uri = "integration://django-vue-auth" ->
            IF HasRole(auth_result, "anonymous") THEN "integration" ELSE "notice"
      [] uri = "custom://aida-permissions" ->
            IF HasRole(auth_result, "basic") THEN "custom" ELSE "notice"
      [] OTHER -> "error"

\* read_resource_secure(uri), lines 321-434: authenticate_request, then
\* check_rate_limits, then the route; a False from check_rate_limits is raised
\* and returned as the text "Error: Rate limit exceeded..."
ReadResourceSecure(presented, auth_result, uri) ==
    /\ auth_result \in AuthenticateRequest(presented)
    /\ CheckRateLimits(auth_result)
    /\ svRead' = [called |-> TRUE, presented |-> presented,
                  auth_result |-> auth_result, uri |-> uri,
                  outcome |-> IF svOut'.ret THEN RouteResource(auth_result, uri)
                              ELSE "rate_limited"]

\* time passes between requests
SvTick(t) ==
    /\ t > ddClock
    /\ ddClock' = t
    /\ UNCHANGED <<nonServerVars, suspicious_ips, blocked_ips, ddOut, svLimiter, svOut, svDenials, svRead>>

NextServer ==
    \/ \E presented \in BOOLEAN, uri \in SvUris :
          \E a \in AuthenticateRequest(presented) : ReadResourceSecure(presented, a, uri)
    \/ BlockIp(SvClientIp)
    \/ \E t \in SvTimes : SvTick(t)

(***************************************************************************)
(* Claims about check_rate_limits                                          *)
(***************************************************************************)
\* C17: a request authenticated with the Admin role is always admitted:
\* check_rate_limits returns True for it, whatever the limiter's counters
\* and the suspicion and block maps hold for the client address.
C17_AdminAlwaysAdmitted ==
    svOut.auth_result.role = "admin" => svOut.ret

\* C35: a hard block takes repeated violations: in the request flow
\* (is_suspicious, then the rate limits, then mark_suspicious on a denial)
\* an address is blocked only after at least two rate-limit denials for it
\* within the grace window; one denial followed only by requests that would
\* be admitted never produces a block.
C35_BlockNeedsTwoDenials ==
    svOut.blocks => svDenials >= 2

\* C40: a request that presented a credential which failed authentication
\* (AuthResult.success false, for whatever reason, the store being out of
\* reach included) never reaches a protected operation: read_resource_secure
\* does not go on to the content of the resource for it as it would for an
\* anonymous request.
C40_FailedCredentialStopsHere ==
    (svRead.called /\ svRead.presented /\ ~svRead.auth_result.success)
        => svRead.outcome \notin {"pypi", "integration", "custom"}

(***************************************************************************)
(* RateLimiter.api_call_with_protection on a limiter without a redis       *)
(* client, for one identifier and one service whose breaker is the         *)
(* CircuitBreaker above (the 'default' configuration).  The call runs      *)
(* without suspending from the rate-limit check to the invocation of func. *)
(***************************************************************************)
ApiCallsPerHour == RateLimitRule(100, 3600, 0)  \* default_rules[API_CALLS_PER_HOUR]
ApIdentifier == "user:u1"
ApTimes == {0, 61}

\* raise Exception(message)
Raised(cause, message, retry_after) ==
    [how |-> "raised", cause |-> cause, message |-> message, retry_after |-> retry_after]

\* return result
Returned(result) ==
    [how |-> "returned", cause |-> "none", message |-> result, retry_after |-> NoRetryAfter]

NoApOut == [how |-> "none", cause |-> "none", message |-> "", retry_after |-> NoRetryAfter]

\* the limiter after a hundred calls at time 0, each served by func
ApUsedUp ==
    [NoLocalState EXCEPT !.local_windows =
        Put(EmptyMap, <<ApIdentifier, "api_cph">>,
            [i \in 1..ApiCallsPerHour.limit |-> 0])]

\* the limiter as constructed, or with the hour's allowance spent
InitApi ==
    /\ apLimiter \in {NoLocalState, ApUsedUp}
    /\ apCalls = 0
    /\ apOut = NoApOut

\* lines 336-350: the rate-limit check, then the breaker's gate
ApiCallEnter(p) ==
    LET r == IsAllowedLocal(apLimiter, <<ApIdentifier, "api_cph">>,
                            ApiCallsPerHour, 1, cbClock)
    IN  /\ cbCalls[p] = "idle"
        /\ apCalls < MaxApiCalls
        /\ apCalls' = apCalls + 1
        /\ apLimiter' = r.st
        /\ IF ~r.res.allowed
           THEN /\ apOut' = Raised("rate_limit", "API rate limit exceeded",
                                   r.res.retry_after)
                /\ UNCHANGED cbVars
           ELSE /\ CallEnterBody(p)
                /\ apOut' = IF state = "OPEN" /\ ~CooldownElapsed(cbClock, last_failure_time)
                            THEN Raised("circuit_open",
                                        "External API temporarily unavailable",
                                        NoRetryAfter)
                            ELSE apOut
        /\ UNCHANGED nonApiVars

\* lines 350-351: func returned, and so does the call
ApiFuncReturns(p) ==
    /\ CallSucceedsBody(p)
    /\ apOut' = Returned("result")
    /\ UNCHANGED <<nonApiVars, apLimiter, apCalls>>

\* lines 352-354: func raised, the breaker raised it again, the except
\* clause raises its own Exception
ApiFuncRaises(p) ==
    /\ CallFailsBody(p)
    /\ apOut' = Raised("func_failed", "External API temporarily unavailable",
                       NoRetryAfter)
    /\ UNCHANGED <<nonApiVars, apLimiter, apCalls>>

\* the task is cancelled inside func: CancelledError passes both except clauses
ApiCancelled(p) ==
    /\ CallCancelledBody(p)
    /\ apOut' = Raised("cancelled", "CancelledError", NoRetryAfter)
    /\ UNCHANGED <<nonApiVars, apLimiter, apCalls>>

ApTick(t) ==
    /\ t > cbClock
    /\ cbClock' = t
    /\ UNCHANGED <<nonApiVars, state, failure_count, last_failure_time, cbCalls,
                   cbConsec, cbOut, cbTrial, apLimiter, apCalls, apOut>>

NextApi ==
    \/ \E p \in 1..NCbCalls : ApiCallEnter(p)
    \/ \E p \in 1..NCbCalls : ApiFuncReturns(p)
    \/ \E p \in 1..NCbCalls : ApiFuncRaises(p)
    \/ \E p \in 1..NCbCalls : ApiCancelled(p)
    \/ \E t \in ApTimes : ApTick(t)

(***************************************************************************)
(* Claims about api_call_with_protection                                   *)
(***************************************************************************)
\* C19: a call turned away because the API-call rate limit is exceeded or
\* because the breaker is OPEN reaches its caller as a returned denial that
\* carries a retry hint, not as a raised exception.
C19_DenialsAreReturned ==
    apOut.cause \in {"rate_limit", "circuit_open"} =>
        (apOut.how = "returned" /\ apOut.retry_after # NoRetryAfter)


(***************************************************************************)
(* RateLimiter.is_allowed for one key, answered by the store-backed window *)
(* (_redis_rate_limit, lines 170-232) and by the local window              *)
(* (_local_rate_limit, lines 273-307) side by side: the checks are made    *)
(* one after the other, each running to its end before the next begins     *)
(***************************************************************************)
EqRules ==
    {[limit |-> 2, window_seconds |-> 2, burst_limit |-> 0, cost_per_request |-> 1],
     [limit |-> 3, window_seconds |-> 2, burst_limit |-> 0, cost_per_request |-> 2],
     [limit |-> 1, window_seconds |-> 2, burst_limit |-> 2, cost_per_request |-> 1]}

EqCosts == {1, 2}

\* the members of the key after the pipeline of lines 180-194 and, for a
\* denied check, the zrem of line 215
RedisWindowAfter(members, rule, cost, now, p) ==
    LET pruned == ZRemRangeByScore(members, 0, now - rule.window_seconds)
    IN IF RedisAdmits(Cardinality(pruned), rule, cost)
       THEN pruned \cup {RequestId(now, p)}
       ELSE (pruned \cup {RequestId(now, p)}) \ {RequestId(now, p)}

\* the RateLimitResult of _redis_rate_limit when nothing runs between its awaits
RedisWindowResult(members, rule, cost, now, p) ==
    LET pruned == ZRemRangeByScore(members, 0, now - rule.window_seconds)
        current_count == Cardinality(pruned)
    IN IF RedisAdmits(current_count, rule, cost)
       THEN RateLimitResult(TRUE, rule.limit,
                            rule.limit - current_count * rule.cost_per_request - cost,
                            now + rule.window_seconds, NoRetryAfter, "")
       ELSE RateLimitResult(FALSE, rule.limit, 0, now + rule.window_seconds,
                            Max(1, RedisRetryAfter(RedisWindowAfter(members, rule, cost, now, p),
                                                   rule, now)),
                            "Rate limit exceeded")

\* the members the store still holds at time now: the key goes with its TTL
EqLive == IF eqClock < eqStore.expire_at THEN eqStore.members ELSE {}

NoEqOut == [called |-> FALSE, now |-> 0, cost |-> 0, raised |-> FALSE,
            redis |-> RateLimitResult(TRUE, 0, 0, 0, NoRetryAfter, ""),
            local |-> RateLimitResult(TRUE, 0, 0, 0, NoRetryAfter, "")]

\* line 161: key = f"{identifier}:{limit_type.value}"
EqKey == <<"user:u1", "rps">>

InitEquiv ==
    /\ eqClock = 0
    /\ eqRule \in EqRules
    /\ eqStore = [members |-> {}, expire_at |-> 0]
    /\ eqLocal = NoLocalState
    /\ eqTrace = <<>>
    /\ eqTasks = [p \in 1..NEqTasks |-> NoNow]
    /\ eqChecks = 0
    /\ eqOut = NoEqOut

\* task p makes the same check of one limiter with a store client and of one
\* without; a task never reads the same clock value for two checks of its own
EqCheck(p, cost) ==
    /\ eqChecks < MaxEqChecks
    /\ eqTasks[p] # eqClock
    /\ eqChecks' = eqChecks + 1
    /\ eqTasks' = [eqTasks EXCEPT ![p] = eqClock]
    /\ eqStore' = [members |-> RedisWindowAfter(EqLive, eqRule, cost, eqClock, p),
                   expire_at |-> eqClock + eqRule.window_seconds]
    /\ eqLocal' = IsAllowedLocal(eqLocal, EqKey, eqRule, cost, eqClock).st
    /\ eqOut' = [called |-> TRUE, now |-> eqClock, cost |-> cost, raised |-> FALSE,
                 redis |-> RedisWindowResult(EqLive, eqRule, cost, eqClock, p),
                 local |-> IsAllowedLocal(eqLocal, EqKey, eqRule, cost, eqClock).res]
    /\ eqTrace' = Append(eqTrace, eqOut')
    /\ UNCHANGED <<nonEquivVars, eqClock, eqRule>>

\* the same check while the store cannot be reached: pipe.execute() of line
\* 196 raises, nothing in is_allowed or _redis_rate_limit catches it, and the
\* call ends with the exception in place of a RateLimitResult
EqCheckStoreDown(p, cost) ==
    /\ eqChecks < MaxEqChecks
    /\ eqTasks[p] # eqClock
    /\ eqChecks' = eqChecks + 1
    /\ eqTasks' = [eqTasks EXCEPT ![p] = eqClock]
    /\ eqLocal' = IsAllowedLocal(eqLocal, EqKey, eqRule, cost, eqClock).st
    /\ eqOut' = [called |-> TRUE, now |-> eqClock, cost |-> cost, raised |-> TRUE,
                 redis |-> NoEqOut.redis,
                 local |-> IsAllowedLocal(eqLocal, EqKey, eqRule, cost, eqClock).res]
    /\ eqTrace' = Append(eqTrace, eqOut')
    /\ UNCHANGED <<nonEquivVars, eqClock, eqRule, eqStore>>

EqTick ==
    /\ eqClock < MaxEqTime
    /\ eqClock' = eqClock + 1
    /\ UNCHANGED <<nonEquivVars, eqRule, eqStore, eqLocal, eqTasks, eqChecks, eqOut, eqTrace>>

NextEquiv ==
    \/ \E p \in 1..NEqTasks, cost \in EqCosts : EqCheck(p, cost)
    \/ \E p \in 1..NEqTasks, cost \in EqCosts : EqCheckStoreDown(p, cost)
    \/ EqTick

\* C30: the store-backed sliding window and the local one decide alike: for
\* every rule without burst and every sequence of checks made one after the
\* other from the empty state, the two return the same allowed verdict at
\* every step.
C30_SameVerdicts ==
    (eqOut.called /\ ~eqOut.raised /\ eqRule.burst_limit = 0) =>
        eqOut.redis.allowed = eqOut.local.allowed

\* C32: is_allowed uses the store when one is configured and reachable and
\* the local strategy otherwise: a check whose store call fails is decided by
\* the local fallback, the call returning that decision instead of failing.
C32_StoreFailureFallsBack ==
    eqOut.called => ~eqOut.raised

\* the first burst_limit checks of the key are made at one clock value, each of cost 1
BurstAtOnce ==
    /\ eqRule.burst_limit # 0
    /\ Len(eqTrace) >= eqRule.burst_limit
    /\ \A i \in 1..eqRule.burst_limit :
          eqTrace[i].now = eqTrace[1].now /\ eqTrace[i].cost = 1 /\ ~eqTrace[i].raised

\* C31: a rule with a burst allowance is decided by a token bucket of that
\* capacity with or without a store client: burst_limit simultaneous
\* requests from a fresh identifier are all admitted by both limiters.
C31_BurstAdmittedEitherWay ==
    BurstAtOnce =>
        \A i \in 1..eqRule.burst_limit :
            eqTrace[i].redis.allowed /\ eqTrace[i].local.allowed


(***************************************************************************)
(* CostBasedRateLimiter.consume_cost for one identifier, answered by the   *)
(* store-backed ledger (_redis_cost_limit, lines 381-434) and by the local *)
(* ledger (_local_cost_limit, lines 436-479) side by side; the calls are   *)
(* made one after the other, each running to its end before the next       *)
(***************************************************************************)
CeCosts == {1, 2, 3}

\* lines 420-425: cost_entries[0] is the member of lowest score, and of the
\* lowest name among those; the time is parsed from its name f"{now}:{cost}"
RedisCostRetryAfter(members, rule, now) ==
    IF members # {}
    THEN LET first == CHOOSE m \in members :
                          \A o \in members : m[2] < o[2] \/ (m[2] = o[2] /\ m[1] <= o[1])
         IN first[1] + rule.window_seconds - now
    ELSE rule.window_seconds

\* the members of the key after _redis_cost_limit when nothing runs between its awaits
RedisCostAfter(members, rule, cost, now) ==
    LET pruned == PrunedCosts(members, now, rule)
    IN IF CostAdmits(SumScores(pruned), cost, rule.budget)
       THEN pruned \cup {<<now, cost>>} ELSE pruned

\* the RateLimitResult of _redis_cost_limit
RedisCostResult(members, rule, cost, now) ==
    LET pruned == PrunedCosts(members, now, rule)
        current_cost == SumScores(pruned)
    IN IF CostAdmits(current_cost, cost, rule.budget)
       THEN RateLimitResult(TRUE, rule.budget, rule.budget - current_cost - cost,
                            now + rule.window_seconds, NoRetryAfter, "")
       ELSE RateLimitResult(FALSE, rule.budget, 0, now + rule.window_seconds,
                            Max(1, RedisCostRetryAfter(pruned, rule, now)),
                            "Cost budget exceeded")

\* the members the store still holds: the key goes with its TTL
CeLive == IF ceStore.ttl # NoTtl /\ ceClock >= ceStore.ttl THEN {} ELSE ceStore.members

NoCeOut == [called |-> FALSE, now |-> 0, cost |-> 0, before |-> {}, kept |-> {},
            redis |-> RateLimitResult(TRUE, 0, 0, 0, NoRetryAfter, ""),
            local |-> RateLimitResult(TRUE, 0, 0, 0, NoRetryAfter, "")]

InitCostEquiv ==
    /\ ceClock = EpochNow
    /\ ceRule \in CostRules
    /\ ceStore = [members |-> {}, ttl |-> NoTtl]
    /\ ceLocal = <<>>
    /\ ceChecks = 0
    /\ ceOut = NoCeOut

\* the same consume_cost call on a limiter with a store client and on one without
CeConsume(cost) ==
    /\ ceChecks < MaxCeChecks
    /\ ceChecks' = ceChecks + 1
    /\ LET after == RedisCostAfter(CeLive, ceRule, cost, ceClock)
           res == RedisCostResult(CeLive, ceRule, cost, ceClock)
       IN /\ ceStore' = [members |-> after,
                         ttl |-> IF after = {} THEN NoTtl
                                 ELSE IF res.allowed THEN ceClock + ceRule.window_seconds
                                 ELSE ceStore.ttl]
          /\ ceOut' = [called |-> TRUE, now |-> ceClock, cost |-> cost,
                       before |-> CeLive, kept |-> PrunedCosts(CeLive, ceClock, ceRule),
                       redis |-> res,
                       local |-> LocalCostResult(ceLocal, ceRule, cost, ceClock)]
    /\ ceLocal' = LocalCostAfter(ceLocal, ceRule, cost, ceClock)
    /\ UNCHANGED <<nonCostEquivVars, ceClock, ceRule>>

CeTick ==
    /\ ceClock < EpochNow + MaxCeTime
    /\ ceClock' = ceClock + 1
    /\ UNCHANGED <<nonCostEquivVars, ceRule, ceStore, ceLocal, ceChecks, ceOut>>

NextCostEquiv ==
    \/ \E c \in CeCosts : CeConsume(c)
    \/ CeTick

\* C33: the store-backed cost ledger follows the window mechanics of the
\* local one: its prune step removes exactly the entries stamped at or before
\* now - window and keeps every younger one, so in every sequence of
\* consume_cost calls made one after the other the two ledgers return the
\* same allowed verdict, and a denial's retry_after is derived from the time
\* of the oldest entry that survived.
C33_LedgersAgree ==
    ceOut.called =>
        /\ ceOut.kept = {m \in ceOut.before : m[1] > ceOut.now - ceRule.window_seconds}
        /\ ceOut.redis.allowed = ceOut.local.allowed
        /\ (~ceOut.redis.allowed /\ ceOut.kept # {}) =>
               \E m \in ceOut.kept :
                   /\ \A o \in ceOut.kept : m[1] <= o[1]
                   /\ ceOut.redis.retry_after =
                          Max(1, m[1] + ceRule.window_seconds - ceOut.now)


(***************************************************************************)
(* RateLimiter.is_allowed on the local path for one key of a rule with a   *)
(* burst allowance (_local_rate_limit, lines 243-271), every check of cost *)
(* 1, with the admissions counted by the clock value they were made at     *)
(***************************************************************************)
BtRules ==
    {[limit |-> 1, window_seconds |-> 2, burst_limit |-> 3, cost_per_request |-> 1],
     [limit |-> 2, window_seconds |-> 1, burst_limit |-> 2, cost_per_request |-> 1]}

BtTimes == {0, 1, 4}
BtKey == <<"user:u1", "rpm">>

InitBurst ==
    /\ btClock = 0
    /\ btRule \in BtRules
    /\ btLimiter = NoLocalState
    /\ btAdmitted = [t \in BtTimes |-> 0]

\* is_allowed(identifier, limit_type, rule) without a redis client: the first
\* check creates the bucket, full; no await on the way suspends
BurstCheck ==
    /\ LET r == IsAllowedLocal(btLimiter, BtKey, btRule, 1, btClock)
       IN /\ btLimiter' = r.st
          /\ btAdmitted' = IF r.res.allowed
                           THEN [btAdmitted EXCEPT ![btClock] = @ + 1]
                           ELSE btAdmitted
          /\ r.res.allowed => btAdmitted[btClock] < MaxBtAdmitted
    /\ UNCHANGED <<nonBurstVars, btClock, btRule>>

\* the wall clock shows another value, later or earlier
BtTick(t) ==
    /\ t \in BtTimes /\ t # btClock
    /\ btClock' = t
    /\ UNCHANGED <<nonBurstVars, btRule, btLimiter, btAdmitted>>

NextBurst ==
    \/ BurstCheck
    \/ \E t \in BtTimes : BtTick(t)

\* the admissions made at clock values a..b
BtAdmittedBetween(a, b) ==
    LET ts == {t \in BtTimes : a <= t /\ t <= b}
        f[S \in SUBSET ts] ==
            IF S = {} THEN 0
            ELSE LET t == CHOOSE x \in S : TRUE IN btAdmitted[t] + f[S \ {t}]
    IN f[ts]

\* L * T / W rounded up
RefillWithin(rule, T) ==
    (rule.limit * T + rule.window_seconds - 1) \div rule.window_seconds

\* C38: for a rule (limit L, window W, burst allowance B) on the local path
\* and cost 1, the requests admitted for one identifier in any time interval
\* of length T number at most B + L*T/W rounded up, after any sequence of
\* checks.
C38_BurstAdmissionBound ==
    \A a, b \in BtTimes :
        a <= b => BtAdmittedBetween(a, b) <= btRule.burst_limit + RefillWithin(btRule, b - a)

\* the bound is met: the burst at 0 and all the refill up to 4 were admitted
C38_Witness ==
    /\ btRule.burst_limit = 3
    /\ btAdmitted[0] = 3 /\ btAdmitted[4] = 2

(***************************************************************************)
(* Specifications: one per component; the other components' variables      *)
(* keep the values of a fixed initial state.                               *)
(***************************************************************************)
InitAll ==
    /\ InitAuth /\ InitBucket /\ InitWindow /\ InitRedis /\ InitBreaker
    /\ InitLedger /\ InitRedisCost /\ InitMulti /\ InitRole /\ InitDdos
    /\ InitServer /\ InitApi /\ InitEquiv /\ InitCostEquiv /\ InitBurst

PinAuth == redis_client = TRUE
PinBucket == tbRule.burst_limit = 10
PinWindow == lwRule.limit = 3
PinRedis == rzRule.limit = 1
PinLedger == clRule.budget = 3
PinRedisCost == rcRule.budget = 3
PinRole == hrResult = AuthFailure("Invalid API key")
PinApi == apLimiter = NoLocalState
PinEquiv == eqRule = [limit |-> 2, window_seconds |-> 2, burst_limit |-> 0, cost_per_request |-> 1]
PinCostEquiv == ceRule.budget = 3
PinBurst == btRule.burst_limit = 3

InitSpecAuth ==
    /\ InitAll /\ PinBucket /\ PinWindow /\ PinRedis /\ PinLedger
    /\ PinRedisCost /\ PinRole /\ PinApi /\ PinEquiv /\ PinCostEquiv
    /\ PinBurst

InitSpecBucket ==
    /\ InitAll /\ PinAuth /\ PinWindow /\ PinRedis /\ PinLedger
    /\ PinRedisCost /\ PinRole /\ PinApi /\ PinEquiv /\ PinCostEquiv
    /\ PinBurst

InitSpecWindow ==
    /\ InitAll /\ PinAuth /\ PinBucket /\ PinRedis /\ PinLedger
    /\ PinRedisCost /\ PinRole /\ PinApi /\ PinEquiv /\ PinCostEquiv
    /\ PinBurst

InitSpecRedis ==
    /\ InitAll /\ PinAuth /\ PinBucket /\ PinWindow /\ PinLedger
    /\ PinRedisCost /\ PinRole /\ PinApi /\ PinEquiv /\ PinCostEquiv
    /\ PinBurst

InitSpecBreaker ==
    /\ InitAll /\ PinAuth /\ PinBucket /\ PinWindow /\ PinRedis /\ PinLedger
    /\ PinRedisCost /\ PinRole /\ PinApi /\ PinEquiv /\ PinCostEquiv
    /\ PinBurst

InitSpecLedger ==
    /\ InitAll /\ PinAuth /\ PinBucket /\ PinWindow /\ PinRedis
    /\ PinRedisCost /\ PinRole /\ PinApi /\ PinEquiv /\ PinCostEquiv
    /\ PinBurst

InitSpecRedisCost ==
    /\ InitAll /\ PinAuth /\ PinBucket /\ PinWindow /\ PinRedis /\ PinLedger
    /\ PinRole /\ PinApi /\ PinEquiv /\ PinCostEquiv /\ PinBurst

InitSpecMulti ==
    /\ InitAll /\ PinAuth /\ PinBucket /\ PinWindow /\ PinRedis /\ PinLedger
    /\ PinRedisCost /\ PinRole /\ PinApi /\ PinEquiv /\ PinCostEquiv
    /\ PinBurst

InitSpecRole ==
    /\ InitAll /\ PinAuth /\ PinBucket /\ PinWindow /\ PinRedis /\ PinLedger
    /\ PinRedisCost /\ PinApi /\ PinEquiv /\ PinCostEquiv /\ PinBurst

InitSpecDdos ==
    /\ InitAll /\ PinAuth /\ PinBucket /\ PinWindow /\ PinRedis /\ PinLedger
    /\ PinRedisCost /\ PinRole /\ PinApi /\ PinEquiv /\ PinCostEquiv
    /\ PinBurst

InitSpecServer ==
    /\ InitAll /\ PinAuth /\ PinBucket /\ PinWindow /\ PinRedis /\ PinLedger
    /\ PinRedisCost /\ PinRole /\ PinApi /\ PinEquiv /\ PinCostEquiv
    /\ PinBurst

InitSpecAuthFault ==
    /\ InitAll /\ PinBucket /\ PinWindow /\ PinRedis /\ PinLedger
    /\ PinRedisCost /\ PinRole /\ PinApi /\ PinEquiv /\ PinCostEquiv
    /\ PinBurst

InitSpecApi ==
    /\ InitAll /\ PinAuth /\ PinBucket /\ PinWindow /\ PinRedis /\ PinLedger
    /\ PinRedisCost /\ PinRole /\ PinEquiv /\ PinCostEquiv /\ PinBurst

InitSpecAuthLife ==
    /\ InitAll /\ PinAuth /\ PinBucket /\ PinWindow /\ PinRedis /\ PinLedger
    /\ PinRedisCost /\ PinRole /\ PinApi /\ PinEquiv /\ PinCostEquiv
    /\ PinBurst

InitSpecEquiv ==
    /\ InitAll /\ PinAuth /\ PinBucket /\ PinWindow /\ PinRedis /\ PinLedger
    /\ PinRedisCost /\ PinRole /\ PinApi /\ PinCostEquiv /\ PinBurst

InitSpecCostEquiv ==
    /\ InitAll /\ PinAuth /\ PinBucket /\ PinWindow /\ PinRedis /\ PinLedger
    /\ PinRedisCost /\ PinRole /\ PinApi /\ PinEquiv /\ PinBurst

InitSpecBurst ==
    /\ InitAll /\ PinAuth /\ PinBucket /\ PinWindow /\ PinRedis /\ PinLedger
    /\ PinRedisCost /\ PinRole /\ PinApi /\ PinEquiv /\ PinCostEquiv

SpecAuth == InitSpecAuth /\ [][NextAuth]_vars

SpecBucket == InitSpecBucket /\ [][NextBucket]_vars

SpecWindow == InitSpecWindow /\ [][NextWindow]_vars

SpecRedis == InitSpecRedis /\ [][NextRedis]_vars

SpecBreaker == InitSpecBreaker /\ [][NextBreaker]_vars

SpecLedger == InitSpecLedger /\ [][NextLedger]_vars

SpecRedisCost == InitSpecRedisCost /\ [][NextRedisCost]_vars

SpecMulti == InitSpecMulti /\ [][NextMulti]_vars

SpecRole == InitSpecRole /\ [][NextRole]_vars

SpecDdos == InitSpecDdos /\ [][NextDdos]_vars

SpecServer == InitSpecServer /\ [][NextServer]_vars

SpecAuthFault == InitSpecAuthFault /\ [][NextAuthFault]_vars

SpecApi == InitSpecApi /\ [][NextApi]_vars

SpecAuthLife == InitSpecAuthLife /\ [][NextAuthLife]_vars

SpecEquiv == InitSpecEquiv /\ [][NextEquiv]_vars

SpecCostEquiv == InitSpecCostEquiv /\ [][NextCostEquiv]_vars

SpecBurst == InitSpecBurst /\ [][NextBurst]_vars

====
